---------------------------- MODULE Spec2Model ----------------------------
(***************************************************************************)
(* A model of avbroot's OTA patching core (src/avbroot/main.py, boot.py,   *)
(* openssl.py): the partition planner, the zip re-emitter, the boot image  *)
(* patcher, the Magisk ramdisk transformation, the passphrase injection    *)
(* scope and the patch pipeline with its worker pool.                      *)
(*                                                                         *)
(* Each component has its own specification over the variables it uses;    *)
(* the variables of the other components stay at their idle values.        *)
(*   Spec         patch_subcommand / patch_ota_payload (the pipeline)      *)
(*   SpecPlanner  get_vbmeta_patch_order, run twice on one input           *)
(*   SpecZip      patch_ota_zip                                            *)
(*   SpecPopen    inject_passphrase scopes of concurrent threads           *)
(*   SpecBoot     patch_boot                                               *)
(*   SpecMagisk   MagiskRootPatch._patch, run twice on one input           *)
(***************************************************************************)
EXTENDS Integers, Sequences, FiniteSets, TLC

\* ------------------------------------------------------------------------
\* Bounds of the model
\* ------------------------------------------------------------------------

\* Number of vbmeta partitions the planner specification works with.
MaxVbmeta == 2

\* ------------------------------------------------------------------------
\* Generic helpers
\* ------------------------------------------------------------------------

Range(s) == {s[i] : i \in 1..Len(s)}

\* All sequences that list the elements of the finite set S once each: the
\* iteration orders a Python set (or a dict built from one) may take.
Perms(S) == {s \in [1..Cardinality(S) -> S] : Range(s) = S}

Pos(s, x) == CHOOSE i \in 1..Len(s) : s[i] = x

None == "None"

\* ------------------------------------------------------------------------
\* Partition names
\* ------------------------------------------------------------------------

\* Partition names used by the model, in Python's str order (sorted()).
SortedNames == <<"boot", "init_boot", "recovery", "system", "vbmeta",
                 "vbmeta_system", "vbmeta_vendor", "vendor_boot">>

\* a < b for two partition names, as Python compares str.
NameLess(a, b) == Pos(SortedNames, a) < Pos(SortedNames, b)

\* sub in s, for two str
Contains(s, sub) ==
    \E i \in 1..(Len(s) - Len(sub) + 1) : SubSeq(s, i, i + Len(sub) - 1) = sub

\* 'vbmeta' in partition
IsVbmeta(partition) == Contains(partition, "vbmeta")

VbmetaNames == <<"vbmeta", "vbmeta_system", "vbmeta_vendor">>

\* ------------------------------------------------------------------------
\* Variables
\* ------------------------------------------------------------------------

VARIABLES
    \* planner (get_vbmeta_patch_order); image_paths, vbmeta_images,
    \* vbmeta_deps and vbmeta_order are also the pipeline's
    image_paths,      \* dict: partition name -> path of its current image
    vbmeta_images,    \* set of vbmeta partition names
    descriptors,      \* what get_vbmeta_deps reads: vbmeta -> referenced names
    dep_graph,        \* the working dep_graph of get_vbmeta_patch_order
    vbmeta_deps,      \* returned reduced graph
    vbmeta_order,     \* returned order
    pl_pc,            \* position inside get_vbmeta_patch_order
    pl_iters,         \* completed iterations of the elision loop
    pl_run,           \* number of the current run
    pl_prev,          \* results of the previous runs

    \* patch_ota_zip
    zip_in,           \* the input zip's entries, in central-directory order
    infolist,         \* z_in.infolist(), after the swap
    missing,          \* required names not seen yet
    i_payload,        \* index of payload.bin (Python's index + 1; 0 for -1)
    i_properties,     \* index of payload_properties.txt (same convention)
    z_out,            \* entries written to the output zip, in order
    properties,       \* bytes returned by patch_ota_payload, or None
    metadata_info,    \* out_info kept for the legacy metadata entry
    metadata_pb_info, \* out_info kept for metadata.pb
    zip_next,         \* index of the next entry of the main loop
    zip_pc,           \* position inside patch_ota_zip
    zip_err,          \* the exception patch_ota_zip raised, or None

    \* inject_passphrase scopes (openssl.py); a scope is a number, and the
    \* value 0 stands for the original subprocess.Popen, s > 0 for the mock
    \* that scope s installed (its side_effect is the scope's wrapper)
    popen,            \* the process-wide binding subprocess.Popen
    orig_popen,       \* scope -> _PopenPassphraseWrapper.orig_popen
    temp_original,    \* scope -> the patcher's temp_original
    scope_state,      \* scope -> "unused", "constructed", "read", "entered", "exited"
    scope_stack,      \* thread -> the scopes it is inside of, innermost last
    next_scope,       \* the next scope number

    \* patch_boot (boot.py 396-481)
    pb_in,            \* the call's arguments and what the input image holds
    key,              \* the local key, after the drop
    have_key_new,     \* not not key
    algorithm_name,   \* the algorithm handed to add_hash_footer
    pb_next,          \* index of the next element of patch_funcs
    pb_events,        \* what was done to the work file, in order
    pb_file,          \* output_path: "absent", "staging" (temp file), "final"
    pb_signed,        \* whether the work file carries a signed footer
    pb_pc,            \* position inside patch_boot
    pb_err,           \* the exception patch_boot raised, or None

    \* MagiskRootPatch._patch (boot.py 110-229)
    mg_in,            \* the boot image, the Magisk bundle and the options
    ent,              \* the cpio entry objects: ent[id] is [name, content]
    entries,          \* the list entries, as object ids
    old_entries,      \* the list old_entries, as object ids
    mg_diff,          \* added, deleted and changed of _apply_magisk_backup
    mg_pc,            \* position inside _patch
    mg_err,           \* the exception _patch raised, or None
    mg_run,           \* number of the run of _patch on the same input
    mg_prev,          \* entry lists saved by the earlier runs

    \* patch_subcommand, patch_ota_zip and patch_ota_payload (main.py)
    args,             \* the command line and what the input files hold
    main_pc,          \* position of the controlling thread
    main_err,         \* the exception being propagated, or None
    out_file,         \* the output path: "absent", "staging" or "final"
    required_images,  \* required_images of patch_ota_payload
    image_patches,    \* image_patches: image -> list of patches
    w_pc,             \* per submitted worker (image): where apply_patches is
    consumed,         \* futures whose result() the controller has taken
    vb_next,          \* index into vbmeta_order of the rebuild loop
    rebuilt,          \* the calls of vbmeta.patch_vbmeta_image, in order
    payload_images,   \* image_paths handed to ota.patch_payload, or None
    warnings,         \* what print_warning was called with, in order
    w_err,            \* per submitted worker: the exception it raised, or None
    boot_runs,        \* per image: the runs of boot.patch_boot on it, each
                      \* the sequence of what it did to its work file

    \* OtaCertPatch.patch (boot.py 243-283)
    oc_in,            \* boot_image as handed to patch
    oc_ramdisks,      \* boot_image.ramdisks
    oc_i,             \* i of the loop over the ramdisks
    found_otacerts,   \* found_otacerts
    oc_pc,            \* position inside patch

    \* PrepatchedImage.patch (boot.py 307-376)
    pp_in,            \* the original image, the prepatched one, fatal_level
    issues,           \* issues: the three lists, by level
    pp_warned,        \* what warning_fn was called with, in order
    pp_pc,            \* position inside patch
    pp_err,           \* the exception patch raised, or None

    \* get_partitions_by_type (main.py 66-81)
    gp_in,            \* the partition names of the manifest
    gp_out,           \* what the call returned or raised
    gp_pc,            \* position of the caller

    \* strip_bad_extra_fields (main.py 239-256)
    sx_in,            \* the records the first call's argument is made of
    extra,            \* extra of the call that is running
    offset,           \* offset
    new_extra,        \* new_extra
    sx_out,           \* what the finished calls returned, in order
    sx_pc             \* position of the caller

plannerVars == <<image_paths, vbmeta_images, descriptors, dep_graph,
                 vbmeta_deps, vbmeta_order, pl_pc, pl_iters, pl_run, pl_prev>>

zipVars == <<zip_in, infolist, missing, i_payload, i_properties, z_out,
             properties, metadata_info, metadata_pb_info, zip_next, zip_pc,
             zip_err>>

popenVars == <<popen, orig_popen, temp_original, scope_state, scope_stack,
               next_scope>>

bootVars == <<pb_in, key, have_key_new, algorithm_name, pb_next, pb_events,
              pb_file, pb_signed, pb_pc, pb_err>>

magiskVars == <<mg_in, ent, entries, old_entries, mg_diff, mg_pc, mg_err,
                mg_run, mg_prev>>

mainVars == <<args, main_pc, main_err, out_file, required_images,
              image_patches, w_pc, consumed, vb_next, rebuilt, payload_images,
              warnings, w_err, boot_runs>>

otacertVars == <<oc_in, oc_ramdisks, oc_i, found_otacerts, oc_pc>>

prepatchedVars == <<pp_in, issues, pp_warned, pp_pc, pp_err>>

partitionVars == <<gp_in, gp_out, gp_pc>>

stripVars == <<sx_in, extra, offset, new_extra, sx_out, sx_pc>>

patchVars == <<otacertVars, prepatchedVars, partitionVars, stripVars>>

vars == <<plannerVars, zipVars, popenVars, bootVars, magiskVars, mainVars,
          patchVars>>

\* the variables a component's own specification leaves alone
notPlanner == <<zipVars, popenVars, bootVars, magiskVars, mainVars,
                patchVars>>
notZip     == <<plannerVars, popenVars, bootVars, magiskVars, mainVars,
                patchVars>>
notPopen   == <<plannerVars, zipVars, bootVars, magiskVars, mainVars,
                patchVars>>
notBoot    == <<plannerVars, zipVars, popenVars, magiskVars, mainVars,
                patchVars>>
notMagisk  == <<plannerVars, zipVars, popenVars, bootVars, mainVars,
                patchVars>>
notMain    == <<zipVars, popenVars, bootVars, magiskVars, pl_pc, pl_iters,
               pl_run, pl_prev, patchVars>>
notPatch   == <<plannerVars, zipVars, popenVars, bootVars, magiskVars,
                mainVars>>
notOtaCert    == <<notPatch, prepatchedVars, partitionVars, stripVars>>
notPrepatched == <<notPatch, otacertVars, partitionVars, stripVars>>
notPartitions == <<notPatch, otacertVars, prepatchedVars, stripVars>>
notStrip      == <<notPatch, otacertVars, prepatchedVars, partitionVars>>

\* ------------------------------------------------------------------------
\* get_vbmeta_patch_order (main.py 101-123)
\* ------------------------------------------------------------------------

\* vbmeta.get_vbmeta_deps: each vbmeta image handed in maps to the set of
\* images its chain and hash descriptors reference.
get_vbmeta_deps(desc, images) == [n \in images |-> desc[n]]

\* main.py 106-107: only keep dependencies among the working set
RestrictGraph(graph, paths) ==
    [n \in (DOMAIN graph) \cap (DOMAIN paths) |-> graph[n] \cap (DOMAIN paths)]

\* main.py 111-112
UnneededVbmeta(graph, vbimages) ==
    {n \in DOMAIN graph : n \in vbimages /\ graph[n] = {}}

\* A slip that forgets to drop the elided images from the dependency sets.
ElideOnceKeepDeps(graph, unneeded) ==
    [n \in (DOMAIN graph) \ unneeded |-> graph[n]]

\* main.py 116-118
ElideOnce(graph, unneeded) ==
    [n \in (DOMAIN graph) \ unneeded |-> graph[n] \ unneeded]

\* main.py 110-118, the whole loop
RECURSIVE ElideLoop(_, _)
ElideLoop(graph, vbimages) ==
    LET unneeded == UnneededVbmeta(graph, vbimages)
    IN  IF unneeded = {} THEN graph
        ELSE ElideLoop(ElideOnce(graph, unneeded), vbimages)

\* --- graphlib.TopologicalSorter, as CPython implements it ---------------
\* keySeq is the iteration order of the dict dep_graph, predSeq[n] the
\* iteration order of the set dep_graph[n].

AppendNew(s, x) == IF x \in Range(s) THEN s ELSE Append(s, x)

RECURSIVE AppendAllNew(_, _)
AppendAllNew(s, xs) ==
    IF xs = <<>> THEN s ELSE AppendAllNew(AppendNew(s, Head(xs)), Tail(xs))

\* TopologicalSorter.__init__ / add: the order in which nodes enter _node2info
RECURSIVE NodeOrder(_, _, _)
NodeOrder(acc, keySeq, predSeq) ==
    IF keySeq = <<>> THEN acc
    ELSE NodeOrder(AppendAllNew(AppendNew(acc, Head(keySeq)),
                                predSeq[Head(keySeq)]),
                   Tail(keySeq), predSeq)

\* successors of node p: the keys that list p as a predecessor, in add order
Successors(graph, keySeq, p) ==
    SelectSeq(keySeq, LAMBDA k : p \in graph[k])

\* TopologicalSorter.done for one group: walk the successors of the group's
\* nodes in order, decrement, collect the nodes that become ready
RECURSIVE DoneFold(_, _, _)
DoneFold(flat, npred, ready) ==
    IF flat = <<>> THEN [npred |-> npred, ready |-> ready]
    ELSE LET s  == Head(flat)
             n2 == [npred EXCEPT ![s] = @ - 1]
         IN  DoneFold(Tail(flat), n2,
                      IF n2[s] = 0 THEN Append(ready, s) ELSE ready)

RECURSIVE Flatten(_, _, _)
Flatten(group, graph, keySeq) ==
    IF group = <<>> THEN <<>>
    ELSE Successors(graph, keySeq, Head(group))
            \o Flatten(Tail(group), graph, keySeq)

\* static_order's loop: get_ready, yield the group, done
RECURSIVE Rounds(_, _, _, _, _)
Rounds(ready, npred, out, graph, keySeq) ==
    IF ready = <<>> THEN out
    ELSE LET r == DoneFold(Flatten(ready, graph, keySeq), npred, <<>>)
         IN  Rounds(r.ready, r.npred, out \o ready, graph, keySeq)

GraphNodes(graph) == (DOMAIN graph) \cup UNION {graph[n] : n \in DOMAIN graph}

\* A slip that hands the graph to the sorter as successors: dependants first.
StaticOrderReversed(graph, keySeq, predSeq) ==
    LET nodes == NodeOrder(<<>>, keySeq, predSeq)
        succ  == [n \in GraphNodes(graph) |->
                     IF n \in DOMAIN graph THEN graph[n] ELSE {}]
        rev   == [n \in GraphNodes(graph) |->
                     {k \in GraphNodes(graph) : n \in succ[k]}]
        npred == [n \in GraphNodes(graph) |-> Cardinality(rev[n])]
        ready == SelectSeq(nodes, LAMBDA n : npred[n] = 0)
    IN  Rounds(ready, npred, <<>>, rev, nodes)

\* TopologicalSorter(dep_graph).static_order(): predecessors first.  The
\* result is shorter than the node list exactly when the graph has a cycle
\* (prepare() then raises CycleError).
StaticOrder(graph, keySeq, predSeq) ==
    LET nodes == NodeOrder(<<>>, keySeq, predSeq)
        npred == [n \in GraphNodes(graph) |->
                     IF n \in DOMAIN graph THEN Cardinality(graph[n]) ELSE 0]
        ready == SelectSeq(nodes, LAMBDA n : npred[n] = 0)
    IN  Rounds(ready, npred, <<>>, graph, keySeq)

\* _find_cycle: whether static_order raises CycleError
HasCycle(graph) ==
    LET ks == CHOOSE s \in Perms(DOMAIN graph) : TRUE
        ps == [n \in DOMAIN graph |-> CHOOSE s \in Perms(graph[n]) : TRUE]
    IN  Len(StaticOrder(graph, ks, ps)) < Cardinality(GraphNodes(graph))

\* the iteration orders the sets of the graph may take: one for each key
RECURSIVE PredSeqsOver(_, _)
PredSeqsOver(graph, keys) ==
    IF keys = {} THEN {<<>>}
    ELSE LET k == CHOOSE x \in keys : TRUE
         IN  {(k :> p) @@ f : p \in Perms(graph[k]),
                              f \in PredSeqsOver(graph, keys \ {k})}

PredSeqs(graph) == PredSeqsOver(graph, DOMAIN graph)

\* main.py 120-121: order = [n for n in full_order if n in vbmeta_images]
VbmetaOrder(graph, vbimages, keySeq, predSeq) ==
    SelectSeq(StaticOrder(graph, keySeq, predSeq), LAMBDA n : n \in vbimages)

\* ------------------------------------------------------------------------
\* Idle values: what a component's variables hold in the specifications of
\* the other components
\* ------------------------------------------------------------------------

PlannerIdle ==
    /\ image_paths = <<>>
    /\ vbmeta_images = {}
    /\ descriptors = <<>>
    /\ dep_graph = <<>>
    /\ vbmeta_deps = <<>>
    /\ vbmeta_order = <<>>
    /\ pl_pc = "idle"
    /\ pl_iters = 0
    /\ pl_run = 0
    /\ pl_prev = <<>>

ZipIdle ==
    /\ zip_in = <<>>
    /\ infolist = <<>>
    /\ missing = {}
    /\ i_payload = 0
    /\ i_properties = 0
    /\ z_out = <<>>
    /\ properties = None
    /\ metadata_info = None
    /\ metadata_pb_info = None
    /\ zip_next = 0
    /\ zip_pc = "idle"
    /\ zip_err = None

PopenIdle ==
    /\ popen = 0
    /\ orig_popen = <<>>
    /\ temp_original = <<>>
    /\ scope_state = <<>>
    /\ scope_stack = <<>>
    /\ next_scope = 0

BootIdle ==
    /\ pb_in = <<>>
    /\ key = None
    /\ have_key_new = FALSE
    /\ algorithm_name = None
    /\ pb_next = 0
    /\ pb_events = <<>>
    /\ pb_file = "absent"
    /\ pb_signed = FALSE
    /\ pb_pc = "idle"
    /\ pb_err = None

MagiskIdle ==
    /\ mg_in = <<>>
    /\ ent = <<>>
    /\ entries = <<>>
    /\ old_entries = <<>>
    /\ mg_diff = <<>>
    /\ mg_pc = "idle"
    /\ mg_err = None
    /\ mg_run = 0
    /\ mg_prev = <<>>

OtaCertIdle ==
    /\ oc_in = <<>>
    /\ oc_ramdisks = <<>>
    /\ oc_i = 0
    /\ found_otacerts = FALSE
    /\ oc_pc = "idle"

PrepatchedIdle ==
    /\ pp_in = <<>>
    /\ issues = <<>>
    /\ pp_warned = <<>>
    /\ pp_pc = "idle"
    /\ pp_err = None

PartitionsIdle ==
    /\ gp_in = {}
    /\ gp_out = <<>>
    /\ gp_pc = "idle"

StripIdle ==
    /\ sx_in = <<>>
    /\ extra = <<>>
    /\ offset = 0
    /\ new_extra = <<>>
    /\ sx_out = <<>>
    /\ sx_pc = "idle"

PatchIdle ==
    /\ OtaCertIdle
    /\ PrepatchedIdle
    /\ PartitionsIdle
    /\ StripIdle

MainIdle ==
    /\ args = <<>>
    /\ main_pc = "idle"
    /\ main_err = None
    /\ out_file = "absent"
    /\ required_images = <<>>
    /\ image_patches = <<>>
    /\ w_pc = <<>>
    /\ consumed = {}
    /\ vb_next = 0
    /\ rebuilt = <<>>
    /\ payload_images = None
    /\ warnings = <<>>
    /\ w_err = <<>>
    /\ boot_runs = <<>>

\* ------------------------------------------------------------------------
\* SpecPlanner: get_vbmeta_patch_order step by step, run twice on
\* the same input with fresh iteration orders
\* ------------------------------------------------------------------------

PlannerVbmeta == {VbmetaNames[i] : i \in 1..MaxVbmeta}
PlannerOthers == {"boot", "system"}

PlannerInit ==
    /\ vbmeta_images = PlannerVbmeta
    /\ image_paths \in {[n \in vbmeta_images \cup S |-> <<"extract", n>>] :
                            S \in SUBSET PlannerOthers}
    /\ descriptors \in {d \in [vbmeta_images ->
                                  SUBSET (vbmeta_images \cup PlannerOthers)] :
                            \A n \in vbmeta_images : n \notin d[n]}
    /\ dep_graph = <<>>
    /\ vbmeta_deps = <<>>
    /\ vbmeta_order = <<>>
    /\ pl_pc = "start"
    /\ pl_iters = 0
    /\ pl_run = 1
    /\ pl_prev = <<>>
    /\ ZipIdle
    /\ PopenIdle
    /\ BootIdle
    /\ MagiskIdle
    /\ PatchIdle
    /\ MainIdle

\* main.py 102-107
PlGetDeps ==
    /\ pl_pc = "start"
    /\ dep_graph' = RestrictGraph(get_vbmeta_deps(descriptors, vbmeta_images),
                                  image_paths)
    /\ pl_pc' = "elide"
    /\ UNCHANGED <<image_paths, vbmeta_images, descriptors, vbmeta_deps,
                   vbmeta_order, pl_iters, pl_run, pl_prev>>
    /\ UNCHANGED notPlanner

\* main.py 110-118: one pass of the while loop
PlElide ==
    /\ pl_pc = "elide"
    /\ LET unneeded_vbmeta == UnneededVbmeta(dep_graph, vbmeta_images)
       IN  IF unneeded_vbmeta = {}
           THEN /\ pl_pc' = "sort"
                /\ UNCHANGED <<dep_graph, pl_iters>>
           ELSE /\ dep_graph' = ElideOnce(dep_graph, unneeded_vbmeta)
                /\ pl_iters' = pl_iters + 1
                /\ pl_pc' = "elide"
    /\ UNCHANGED <<image_paths, vbmeta_images, descriptors, vbmeta_deps,
                   vbmeta_order, pl_run, pl_prev>>
    /\ UNCHANGED notPlanner

\* main.py 120-123
PlSort ==
    /\ pl_pc = "sort"
    /\ IF HasCycle(dep_graph)
       THEN /\ pl_pc' = "raised"
            /\ UNCHANGED <<vbmeta_deps, vbmeta_order>>
       ELSE /\ \E ks \in Perms(DOMAIN dep_graph) :
                 \E ps \in PredSeqs(dep_graph) :
                    vbmeta_order' = VbmetaOrder(dep_graph, vbmeta_images, ks, ps)
            /\ vbmeta_deps' = dep_graph
            /\ pl_pc' = "done"
    /\ UNCHANGED <<image_paths, vbmeta_images, descriptors, dep_graph,
                   pl_iters, pl_run, pl_prev>>
    /\ UNCHANGED notPlanner

\* the program is started again on the same input
PlRerun ==
    /\ pl_pc \in {"done", "raised"}
    /\ pl_run < 2
    /\ pl_prev' = Append(pl_prev, [raised |-> pl_pc = "raised",
                                   order |-> vbmeta_order])
    /\ pl_run' = pl_run + 1
    /\ pl_pc' = "start"
    /\ dep_graph' = <<>>
    /\ vbmeta_deps' = <<>>
    /\ vbmeta_order' = <<>>
    /\ pl_iters' = 0
    /\ UNCHANGED <<image_paths, vbmeta_images, descriptors>>
    /\ UNCHANGED notPlanner

PlannerNext == PlGetDeps \/ PlElide \/ PlSort \/ PlRerun

SpecPlanner == PlannerInit /\ [][PlannerNext]_vars

\* ------------------------------------------------------------------------
\* Claims about the planner
\* ------------------------------------------------------------------------

RECURSIVE ReachFrom(_, _)
ReachFrom(graph, S) ==
    LET next == S \cup UNION {graph[n] : n \in S \cap DOMAIN graph}
    IN  IF next = S THEN S ELSE ReachFrom(graph, next)

\* everything n depends on, directly or through other images
TransDeps(graph, n) == IF n \in DOMAIN graph THEN ReachFrom(graph, graph[n]) ELSE {}

InOrder(n) == n \in Range(vbmeta_order)

\* the graph read from the images, restricted to the working set
WorkingGraph == [n \in vbmeta_images |-> descriptors[n] \cap DOMAIN image_paths]

\* C1 as stated: for every edge a -> b of the returned dependency graph
\* with a and b both in the returned order, a precedes b.
C1_EdgeSourceFirst ==
    pl_pc = "done" =>
        \A a \in DOMAIN vbmeta_deps : \A b \in vbmeta_deps[a] :
            (InOrder(a) /\ InOrder(b)) =>
                Pos(vbmeta_order, a) < Pos(vbmeta_order, b)

\* C1 amended: for every edge a -> b of the returned dependency graph (a
\* depends on b) with a and b both in the returned order, b precedes a:
\* an image is rebuilt after the images it depends on.
C1_DependencyFirst ==
    pl_pc = "done" =>
        \A a \in DOMAIN vbmeta_deps : \A b \in vbmeta_deps[a] :
            (InOrder(a) /\ InOrder(b)) =>
                Pos(vbmeta_order, b) < Pos(vbmeta_order, a)

C1_Witness ==
    /\ pl_pc = "done"
    /\ \E a \in DOMAIN vbmeta_deps : \E b \in vbmeta_deps[a] :
          InOrder(a) /\ InOrder(b)

\* C3: the elision loop terminates (every pass removes at least one image,
\* so it makes at most as many passes as there are vbmeta images, and the
\* call only fails on a cyclic graph); a vbmeta image is in the returned
\* order exactly when its transitive dependencies within the working set
\* include a non-vbmeta image; every vbmeta image left in the reduced graph
\* has a non-empty dependency set.
C3_ElisionExact ==
    /\ pl_pc \in {"elide", "sort", "done", "raised"} =>
          pl_iters + Cardinality(DOMAIN dep_graph) <= Cardinality(vbmeta_images)
    /\ pl_pc = "raised" =>
          \E n \in vbmeta_images : n \in TransDeps(WorkingGraph, n)
    /\ pl_pc = "done" =>
          /\ \A v \in vbmeta_images :
                InOrder(v) <=> (TransDeps(WorkingGraph, v) \ vbmeta_images # {})
          /\ \A v \in (DOMAIN vbmeta_deps) \cap vbmeta_images :
                vbmeta_deps[v] # {}

C3_Witness ==
    /\ pl_pc = "done"
    /\ pl_iters >= 1
    /\ vbmeta_order # <<>>
    /\ \E v \in vbmeta_images : ~InOrder(v) /\ descriptors[v] # {}

\* C4 as stated: two vbmeta images of the returned order that the graph
\* does not order come out with the lexicographically smaller name first.
C4_TiesByName ==
    pl_pc = "done" =>
        \A a \in Range(vbmeta_order) : \A b \in Range(vbmeta_order) :
            ( /\ a # b
              /\ a \notin TransDeps(vbmeta_deps, b)
              /\ b \notin TransDeps(vbmeta_deps, a)
              /\ NameLess(a, b) ) =>
                Pos(vbmeta_order, a) < Pos(vbmeta_order, b)

\* ------------------------------------------------------------------------
\* patch_ota_zip (main.py 291-408)
\* ------------------------------------------------------------------------

\* Number of zip entries besides the five required ones.
MaxOther == 1

PATH_METADATA    == "META-INF/com/android/metadata"
PATH_METADATA_PB == "META-INF/com/android/metadata.pb"
PATH_OTACERT     == "META-INF/com/android/otacert"
PATH_PAYLOAD     == "payload.bin"
PATH_PROPERTIES  == "payload_properties.txt"

RequiredPaths == {PATH_METADATA, PATH_METADATA_PB, PATH_OTACERT, PATH_PAYLOAD,
                  PATH_PROPERTIES}

OtherPaths == <<"apex_info.pb", "care_map.pb", "META-INF/MANIFEST.MF">>

ZIP_STORED   == "ZIP_STORED"
ZIP_DEFLATED == "ZIP_DEFLATED"

FileNames(infos) == [i \in 1..Len(infos) |-> infos[i].filename]

\* main.py 304-317: the scan for the required names; stops at the first
\* entry after which nothing is missing and both indexes are known
RECURSIVE ScanInfolist(_, _, _, _, _)
ScanInfolist(infos, i, miss, ip, ipr) ==
    IF i > Len(infos) THEN [missing |-> miss, i_payload |-> ip,
                              i_properties |-> ipr]
    ELSE LET name  == infos[i].filename
             miss2 == miss \ {name}
             ip2   == IF name = PATH_PAYLOAD THEN i ELSE ip
             ipr2  == IF name # PATH_PAYLOAD /\ name = PATH_PROPERTIES
                      THEN i ELSE ipr
         IN  IF miss2 = {} /\ ip2 >= 1 /\ ipr2 >= 1
             THEN [missing |-> miss2, i_payload |-> ip2, i_properties |-> ipr2]
             ELSE ScanInfolist(infos, i + 1, miss2, ip2, ipr2)

\* A slip that exchanges the two infos when they are already in order.
NeedSwapInverted(ip, ipr) == ip < ipr

\* main.py 323: payload must be processed before properties
NeedSwap(ip, ipr) == ip > ipr

\* main.py 324-325
SwapEntries(infos, ip, ipr) ==
    [infos EXCEPT ![ip] = infos[ipr], ![ipr] = infos[ip]]

ZipNames(k) == RequiredPaths \cup {OtherPaths[i] : i \in 1..k}

\* Input zips: every name at most once; all required names, or all but one
ZipInputs ==
    UNION { Perms(N) : N \in { ZipNames(k) \ M :
                k \in 0..MaxOther,
                M \in {{}} \cup {{r} : r \in RequiredPaths} } }

ZipInit ==
    /\ zip_in \in {[i \in 1..Len(names) |->
                      [filename |-> names[i], data |-> <<"in", names[i]>>]] :
                   names \in ZipInputs}
    /\ infolist = <<>>
    /\ missing = {}
    /\ i_payload = 0
    /\ i_properties = 0
    /\ z_out = <<>>
    /\ properties = None
    /\ metadata_info = None
    /\ metadata_pb_info = None
    /\ zip_next = 0
    /\ zip_pc = "scan"
    /\ zip_err = None
    /\ PlannerIdle
    /\ PopenIdle
    /\ BootIdle
    /\ MagiskIdle
    /\ PatchIdle
    /\ MainIdle

\* main.py 296-330
ZipScan ==
    /\ zip_pc = "scan"
    /\ LET r == ScanInfolist(zip_in, 1, RequiredPaths, 0, 0)
       IN  /\ missing' = r.missing
           /\ i_payload' = r.i_payload
           /\ i_properties' = r.i_properties
           /\ IF r.missing # {}
              THEN /\ zip_pc' = "raised"
                   /\ zip_err' = "Missing files in zip"
                   /\ infolist' = zip_in
              ELSE /\ zip_pc' = "loop"
                   /\ zip_err' = None
                   /\ infolist' = IF NeedSwap(r.i_payload, r.i_properties)
                                  THEN SwapEntries(zip_in, r.i_payload,
                                                   r.i_properties)
                                  ELSE zip_in
    /\ zip_next' = 1
    /\ UNCHANGED <<zip_in, z_out, properties, metadata_info, metadata_pb_info>>
    /\ UNCHANGED notZip

\* main.py 332-395: one pass of the main loop.  compress_type is read from
\* the entry; patch_ota_payload returns the new properties or raises.
ZipEntry ==
    /\ zip_pc = "loop"
    /\ zip_next <= Len(infolist)
    /\ LET info == infolist[zip_next]
       IN  \E compress_type \in {ZIP_STORED, ZIP_DEFLATED} :
           \E payload_ok \in BOOLEAN :
              CASE info.filename = PATH_METADATA ->
                     /\ metadata_info' = info.filename
                     /\ zip_next' = zip_next + 1
                     /\ UNCHANGED <<z_out, properties, metadata_pb_info,
                                    zip_pc, zip_err>>
                [] info.filename = PATH_METADATA_PB ->
                     /\ metadata_pb_info' = info.filename
                     /\ zip_next' = zip_next + 1
                     /\ UNCHANGED <<z_out, properties, metadata_info,
                                    zip_pc, zip_err>>
                [] info.filename = PATH_OTACERT ->
                     /\ z_out' = Append(z_out, [filename |-> info.filename,
                                                data |-> <<"cert_ota">>])
                     /\ zip_next' = zip_next + 1
                     /\ UNCHANGED <<properties, metadata_info,
                                    metadata_pb_info, zip_pc, zip_err>>
                [] info.filename = PATH_PAYLOAD ->
                     IF compress_type # ZIP_STORED
                     THEN /\ z_out' = Append(z_out,
                                 [filename |-> info.filename, data |-> <<>>])
                          /\ zip_pc' = "raised"
                          /\ zip_err' = "payload.bin is not stored uncompressed"
                          /\ UNCHANGED <<properties, metadata_info,
                                         metadata_pb_info, zip_next>>
                     ELSE IF ~payload_ok
                     THEN /\ z_out' = Append(z_out,
                                 [filename |-> info.filename, data |-> <<>>])
                          /\ zip_pc' = "raised"
                          /\ zip_err' = "patch_ota_payload raised"
                          /\ UNCHANGED <<properties, metadata_info,
                                         metadata_pb_info, zip_next>>
                     ELSE /\ z_out' = Append(z_out,
                                 [filename |-> info.filename,
                                  data |-> <<"patched", info.data>>])
                          /\ properties' = <<"properties of", <<"patched", info.data>>>>
                          /\ zip_next' = zip_next + 1
                          /\ UNCHANGED <<metadata_info, metadata_pb_info,
                                         zip_pc, zip_err>>
                [] info.filename = PATH_PROPERTIES ->
                     IF compress_type # ZIP_STORED
                     THEN /\ z_out' = Append(z_out,
                                 [filename |-> info.filename, data |-> <<>>])
                          /\ zip_pc' = "raised"
                          /\ zip_err' = "payload_properties.txt is not stored uncompressed"
                          /\ UNCHANGED <<properties, metadata_info,
                                         metadata_pb_info, zip_next>>
                     ELSE IF properties = None
                     THEN /\ z_out' = Append(z_out,
                                 [filename |-> info.filename, data |-> <<>>])
                          /\ zip_pc' = "raised"
                          /\ zip_err' = "TypeError"
                          /\ UNCHANGED <<properties, metadata_info,
                                         metadata_pb_info, zip_next>>
                     ELSE /\ z_out' = Append(z_out,
                                 [filename |-> info.filename,
                                  data |-> properties])
                          /\ zip_next' = zip_next + 1
                          /\ UNCHANGED <<properties, metadata_info,
                                         metadata_pb_info, zip_pc, zip_err>>
                [] OTHER ->
                     /\ z_out' = Append(z_out, [filename |-> info.filename,
                                                data |-> info.data])
                     /\ zip_next' = zip_next + 1
                     /\ UNCHANGED <<properties, metadata_info,
                                    metadata_pb_info, zip_pc, zip_err>>
    /\ UNCHANGED <<zip_in, infolist, missing, i_payload, i_properties>>
    /\ UNCHANGED notZip

\* main.py 397-408: the main loop is over; the metadata entries are
\* regenerated and appended by ota.add_metadata
ZipFinish ==
    /\ zip_pc = "loop"
    /\ zip_next > Len(infolist)
    /\ zip_pc' = "done"
    /\ UNCHANGED <<zip_in, infolist, missing, i_payload, i_properties, z_out,
                   properties, metadata_info, metadata_pb_info, zip_next,
                   zip_err>>
    /\ UNCHANGED notZip

ZipNext == ZipScan \/ ZipEntry \/ ZipFinish

SpecZip == ZipInit /\ [][ZipNext]_vars

\* ------------------------------------------------------------------------
\* Claims about patch_ota_zip
\* ------------------------------------------------------------------------

IsPrefix(s, t) == Len(s) <= Len(t) /\ \A i \in 1..Len(s) : s[i] = t[i]

\* each of the five required names occurs exactly once in the input
RequiredOnce ==
    \A r \in RequiredPaths :
        Cardinality({i \in 1..Len(zip_in) : zip_in[i].filename = r}) = 1

InputPos(name) == CHOOSE i \in 1..Len(zip_in) : zip_in[i].filename = name

\* the input names with payload.bin and payload_properties.txt exchanged
\* when the properties came first, and the two metadata entries removed
ExpectedNames ==
    LET names == FileNames(zip_in)
        ip    == InputPos(PATH_PAYLOAD)
        ipr   == InputPos(PATH_PROPERTIES)
        moved == [i \in 1..Len(names) |->
                    IF ipr < ip /\ i = ipr THEN PATH_PAYLOAD
                    ELSE IF ipr < ip /\ i = ip THEN PATH_PROPERTIES
                    ELSE names[i]]
    IN  SelectSeq(moved, LAMBDA n : n \notin {PATH_METADATA, PATH_METADATA_PB})

\* C5: for an input zip holding each of the five required names once, the
\* entries the main loop writes are the input sequence without the two
\* metadata entries and with payload.bin and payload_properties.txt
\* exchanged only when the properties came first (at every moment a prefix
\* of it, and all of it when the loop completes); payload.bin is written
\* before payload_properties.txt, and the properties bytes written are the
\* ones patch_ota_payload returned.
C5_ZipOrder ==
    (zip_pc \in {"loop", "done", "raised"} /\ RequiredOnce) =>
        /\ IsPrefix(FileNames(z_out), ExpectedNames)
        /\ zip_pc = "done" => FileNames(z_out) = ExpectedNames
        /\ \A i \in 1..Len(z_out) : \A j \in 1..Len(z_out) :
              (z_out[i].filename = PATH_PAYLOAD
               /\ z_out[j].filename = PATH_PROPERTIES) => i < j
        /\ \A j \in 1..Len(z_out) :
              (z_out[j].filename = PATH_PROPERTIES /\ zip_err = None) =>
                  /\ properties # None
                  /\ z_out[j].data = properties
                  /\ \E i \in 1..(j - 1) :
                        /\ z_out[i].filename = PATH_PAYLOAD
                        /\ properties = <<"properties of", z_out[i].data>>

C5_Witness ==
    /\ zip_pc = "done"
    /\ RequiredOnce
    /\ InputPos(PATH_PROPERTIES) < InputPos(PATH_PAYLOAD)
    /\ Len(zip_in) > 5
    /\ Len(z_out) = Len(zip_in) - 2

\* ------------------------------------------------------------------------
\* inject_passphrase (openssl.py 54-106), used by threads that run
\* "with openssl.inject_passphrase(passphrase): ..." (boot.py 448-451)
\* ------------------------------------------------------------------------

\* Number of threads that use inject_passphrase at the same time.
MaxThreads == 2

\* How deep one thread nests inject_passphrase scopes.
MaxDepth == 2

\* Number of scopes opened in one run, over all threads.
MaxScopes == 3

Threads == 1..MaxThreads
Scopes  == 1..MaxScopes

Top(t) == scope_stack[t][Len(scope_stack[t])]

PopenInit ==
    /\ popen = 0
    /\ orig_popen = [s \in Scopes |-> 0]
    /\ temp_original = [s \in Scopes |-> 0]
    /\ scope_state = [s \in Scopes |-> "unused"]
    /\ scope_stack = [t \in Threads |-> <<>>]
    /\ next_scope = 1
    /\ PlannerIdle
    /\ ZipIdle
    /\ BootIdle
    /\ MagiskIdle
    /\ PatchIdle
    /\ MainIdle

\* openssl.py 62-64, called from 105-106: the wrapper is built, reading the
\* current subprocess.Popen, before the patcher is entered
PopenConstruct(t) ==
    /\ Len(scope_stack[t]) < MaxDepth
    /\ next_scope <= MaxScopes
    /\ scope_stack[t] # <<>> => scope_state[Top(t)] = "entered"
    /\ orig_popen' = [orig_popen EXCEPT ![next_scope] = popen]
    /\ scope_state' = [scope_state EXCEPT ![next_scope] = "constructed"]
    /\ scope_stack' = [scope_stack EXCEPT ![t] = Append(@, next_scope)]
    /\ next_scope' = next_scope + 1
    /\ UNCHANGED <<popen, temp_original>>
    /\ UNCHANGED notPopen

\* unittest.mock.patch.__enter__, first half: original = get_original()
PopenEnterRead(t) ==
    /\ scope_stack[t] # <<>>
    /\ scope_state[Top(t)] = "constructed"
    /\ temp_original' = [temp_original EXCEPT ![Top(t)] = popen]
    /\ scope_state' = [scope_state EXCEPT ![Top(t)] = "read"]
    /\ UNCHANGED <<popen, orig_popen, scope_stack, next_scope>>
    /\ UNCHANGED notPopen

\* unittest.mock.patch.__enter__, second half: setattr(target, attribute, new)
PopenEnterSet(t) ==
    /\ scope_stack[t] # <<>>
    /\ scope_state[Top(t)] = "read"
    /\ popen' = Top(t)
    /\ scope_state' = [scope_state EXCEPT ![Top(t)] = "entered"]
    /\ UNCHANGED <<orig_popen, temp_original, scope_stack, next_scope>>
    /\ UNCHANGED notPopen

\* unittest.mock.patch.__exit__: setattr(target, attribute, temp_original)
PopenExit(t) ==
    /\ scope_stack[t] # <<>>
    /\ scope_state[Top(t)] = "entered"
    /\ popen' = temp_original[Top(t)]
    /\ scope_state' = [scope_state EXCEPT ![Top(t)] = "exited"]
    /\ scope_stack' = [scope_stack EXCEPT ![t] = SubSeq(@, 1, Len(@) - 1)]
    /\ UNCHANGED <<orig_popen, temp_original, next_scope>>
    /\ UNCHANGED notPopen

PopenNext ==
    \E t \in Threads :
        \/ PopenConstruct(t)
        \/ PopenEnterRead(t)
        \/ PopenEnterSet(t)
        \/ PopenExit(t)

SpecPopen == PopenInit /\ [][PopenNext]_vars

\* ------------------------------------------------------------------------
\* Claims about inject_passphrase
\* ------------------------------------------------------------------------

\* the wrappers a call of subprocess.Popen goes through when the binding
\* is p (openssl.py 66-94: each wrapper calls its orig_popen)
RECURSIVE WrappersBehind(_)
WrappersBehind(p) ==
    IF p = 0 THEN {} ELSE {p} \cup WrappersBehind(orig_popen[p])

AllScopesExited ==
    /\ \A t \in Threads : scope_stack[t] = <<>>
    /\ \E s \in Scopes : scope_state[s] = "exited"

\* C7 as stated: for every interleaving of the scopes of concurrent threads
\* (and every nested use), once all scopes have exited subprocess.Popen is
\* the original Popen again and no wrapper is reachable through it.
C7_PopenRestored ==
    AllScopesExited => (popen = 0 /\ WrappersBehind(popen) = {})

\* ------------------------------------------------------------------------
\* patch_boot (boot.py 396-481)
\* ------------------------------------------------------------------------

\* Largest number of hash descriptors in the input image's footer.
MaxHashDescriptors == 2

\* A slip that drops the key whenever only_if_previously_signed is set.
KeyAfterDropAlways(k, have_key_old, only_if_previously_signed) ==
    IF only_if_previously_signed THEN None ELSE k

\* boot.py 407-408
KeyAfterDrop(k, have_key_old, only_if_previously_signed) ==
    IF ~have_key_old /\ only_if_previously_signed THEN None ELSE k

\* A slip that loses the key presence check.
KeyPresenceUnchecked(have_key_old, have_new) == FALSE

\* boot.py 412
KeyPresenceMismatch(have_key_old, have_new) == have_key_old # have_new

\* boot.py 430-435
LiftAlgorithm(name) ==
    IF name = "SHA256_RSA2048" THEN "SHA256_RSA4096" ELSE name

\* avbtool's add_hash_footer: the footer it writes is signed when a key is
\* handed over as key_path
add_hash_footer(key_path) == [signed |-> key_path # None]

\* the patch lists patch_ota_payload hands over (main.py 165-170), and none
PatchLists == {<<>>, <<"OtaCertPatch">>, <<"root_patch">>,
               <<"root_patch", "OtaCertPatch">>}

\* Arguments and input image of one call.  A signed image has a public key
\* and a signing algorithm, an unsigned one has neither.
BootInputs ==
    {r \in [have_key_old : BOOLEAN,
            algorithm : {"NONE", "SHA256_RSA2048", "SHA256_RSA4096"},
            key : {None, "privkey_avb"},
            only_if_previously_signed : BOOLEAN,
            n_hash : 0..MaxHashDescriptors,
            patch_funcs : PatchLists] :
        r.have_key_old <=> (r.algorithm # "NONE")}

BootInit ==
    /\ pb_in \in BootInputs
    /\ key = pb_in.key
    /\ have_key_new = FALSE
    /\ algorithm_name = None
    /\ pb_next = 1
    /\ pb_events = <<>>
    /\ pb_file = "absent"
    /\ pb_signed = FALSE
    /\ pb_pc = "parse"
    /\ pb_err = None
    /\ PlannerIdle
    /\ ZipIdle
    /\ PopenIdle
    /\ MagiskIdle
    /\ PatchIdle
    /\ MainIdle

\* boot.py 403-414
PbCheckKey ==
    /\ pb_pc = "parse"
    /\ LET k == KeyAfterDrop(key, pb_in.have_key_old,
                             pb_in.only_if_previously_signed)
       IN  /\ key' = k
           /\ have_key_new' = (k # None)
           /\ IF KeyPresenceMismatch(pb_in.have_key_old, k # None)
              THEN /\ pb_pc' = "raised"
                   /\ pb_err' = "Key presence does not match"
              ELSE /\ pb_pc' = "descriptors"
                   /\ pb_err' = None
    /\ UNCHANGED <<pb_in, algorithm_name, pb_next, pb_events, pb_file,
                   pb_signed>>
    /\ UNCHANGED notBoot

\* boot.py 416-435
PbDescriptors ==
    /\ pb_pc = "descriptors"
    /\ IF pb_in.n_hash > 1
       THEN /\ pb_pc' = "raised"
            /\ pb_err' = "Expected only one hash descriptor"
            /\ UNCHANGED algorithm_name
       ELSE IF pb_in.n_hash = 0
       THEN /\ pb_pc' = "raised"
            /\ pb_err' = "No hash descriptor found"
            /\ UNCHANGED algorithm_name
       ELSE /\ pb_pc' = "open"
            /\ algorithm_name' = LiftAlgorithm(pb_in.algorithm)
            /\ UNCHANGED pb_err
    /\ UNCHANGED <<pb_in, key, have_key_new, pb_next, pb_events, pb_file,
                   pb_signed>>
    /\ UNCHANGED notBoot

\* boot.py 437-441: the output is opened as a temporary file, the input is
\* copied into it and its footer erased
PbOpen ==
    /\ pb_pc = "open"
    /\ pb_file' = "staging"
    /\ pb_signed' = FALSE
    /\ pb_events' = Append(pb_events, <<"erase_footer">>)
    /\ pb_pc' = "patch"
    /\ UNCHANGED <<pb_in, key, have_key_new, algorithm_name, pb_next, pb_err>>
    /\ UNCHANGED notBoot

\* boot.py 444-445: one patch function runs, and may raise
PbPatch ==
    /\ pb_pc = "patch"
    /\ pb_next <= Len(pb_in.patch_funcs)
    /\ \E ok \in BOOLEAN :
          IF ok
          THEN /\ pb_events' = Append(pb_events,
                                      <<"patch", pb_in.patch_funcs[pb_next]>>)
               /\ pb_next' = pb_next + 1
               /\ UNCHANGED <<pb_pc, pb_err>>
          ELSE /\ pb_pc' = "close"
               /\ pb_err' = "patch raised"
               /\ UNCHANGED <<pb_events, pb_next>>
    /\ UNCHANGED <<pb_in, key, have_key_new, algorithm_name, pb_file,
                   pb_signed>>
    /\ UNCHANGED notBoot

\* boot.py 447-481: add_hash_footer with key_path=key; the footer is signed
\* when a key is handed over.  The signing tool may fail.
PbSign ==
    /\ pb_pc = "patch"
    /\ pb_next > Len(pb_in.patch_funcs)
    /\ \E ok \in BOOLEAN :
          IF ok
          THEN /\ pb_events' = Append(pb_events, <<"add_hash_footer">>)
               /\ pb_signed' = add_hash_footer(key).signed
               /\ UNCHANGED pb_err
          ELSE /\ pb_err' = "add_hash_footer raised"
               /\ UNCHANGED <<pb_events, pb_signed>>
    /\ pb_pc' = "close"
    /\ UNCHANGED <<pb_in, key, have_key_new, algorithm_name, pb_next, pb_file>>
    /\ UNCHANGED notBoot

\* boot.py 437, leaving util.open_output_file: the temporary file becomes
\* output_path when the block ended normally and is removed otherwise
PbClose ==
    /\ pb_pc = "close"
    /\ IF pb_err = None
       THEN /\ pb_file' = "final"
            /\ pb_pc' = "done"
       ELSE /\ pb_file' = "absent"
            /\ pb_pc' = "raised"
    /\ UNCHANGED <<pb_in, key, have_key_new, algorithm_name, pb_next,
                   pb_events, pb_signed, pb_err>>
    /\ UNCHANGED notBoot

BootNext == PbCheckKey \/ PbDescriptors \/ PbOpen \/ PbPatch \/ PbSign \/ PbClose

SpecBoot == BootInit /\ [][BootNext]_vars

\* ------------------------------------------------------------------------
\* Claims about patch_boot
\* ------------------------------------------------------------------------

\* a key was supplied without only_if_previously_signed
SigningRequested == pb_in.key # None /\ ~pb_in.only_if_previously_signed

\* C9: for every image for which patch_boot produces an output, the output
\* is signed if and only if the input was signed or signing was requested.
C9_SignednessPreserved ==
    (pb_pc = "done" /\ pb_file = "final") =>
        (pb_signed <=> (pb_in.have_key_old \/ SigningRequested))

C9_Witness ==
    /\ pb_pc = "done"
    /\ pb_file = "final"
    /\ pb_signed
    /\ pb_in.have_key_old
    /\ pb_in.only_if_previously_signed

\* C10: patch_boot drops the key when the original image has no public key
\* and only_if_previously_signed is set, and then raises, before the output
\* file is opened or any patch is run, exactly when "the original has a
\* public key" differs from "a key is still supplied".
C10_KeyDropThenCheck ==
    pb_pc \notin {"idle", "parse"} =>
        /\ key = (IF ~pb_in.have_key_old /\ pb_in.only_if_previously_signed
                  THEN None ELSE pb_in.key)
        /\ (pb_err = "Key presence does not match")
              <=> (pb_in.have_key_old # (key # None))
        /\ (pb_err = "Key presence does not match") =>
              /\ pb_pc = "raised"
              /\ pb_file = "absent"
              /\ pb_events = <<>>

C10_Witness ==
    /\ pb_pc = "raised"
    /\ pb_err = "Key presence does not match"
    /\ pb_in.key # None
    /\ ~pb_in.have_key_old

\* ------------------------------------------------------------------------
\* MagiskRootPatch._patch and _apply_magisk_backup (boot.py 110-229)
\* ------------------------------------------------------------------------

\* Largest number of entries in the ramdisk of the input boot image.
MaxRamdiskEntries == 3

\* Names a ramdisk entry may have here, in bytes order (the order of
\* sorted()).
RamdiskNames ==
    <<".backup", ".backup/.magisk", ".backup/.rmlist", "fstab", "init",
      "overlay.d", "overlay.d/sbin", "overlay.d/sbin/magisk32.xz",
      "overlay.d/sbin/magisk64.xz", "overlay.d/sbin/stub.xz">>

\* A slip that lists the names in descending order.
SortedDescending(names) ==
    LET asc == SelectSeq(RamdiskNames, LAMBDA n : n \in names)
    IN  [k \in DOMAIN asc |-> asc[Len(asc) + 1 - k]]

\* boot.py 227: sorted(names)
Sorted(names) == SelectSeq(RamdiskNames, LAMBDA n : n \in names)

\* boot.py 224
BackupName(name) == ".backup/" \o name

\* cpio.CpioEntryNew.new_directory / new_file: a new entry object
new_directory(path) == [name |-> path, content |-> <<>>]
new_file(path, data) == [name |-> path, content |-> data]

\* boot.py 145-153: xz_files, a dict with str keys, in insertion order
xz_files(has_stub) ==
    <<"magisk32.xz", "magisk64.xz">> \o
        (IF has_stub THEN <<"stub.xz">> ELSE <<>>)

\* what the patch writes under a name (bundle contents are fixed)
MagiskData(name) == <<"magisk", name>>

\* boot.py 211-212: {e.name: e for e in list}; the last entry of a name wins
ByName(objs, list) ==
    [n \in {objs[list[i]].name : i \in DOMAIN list} |->
        LET hits == {i \in DOMAIN list : objs[list[i]].name = n}
        IN  list[CHOOSE i \in hits : \A j \in hits : j <= i]]

\* util.Range: half-open interval
InRange(v, r) == r[1] <= v /\ v < r[2]

\* boot.py 63-69
VERS_SUPPORTED == <<<<25102, 25207>>, <<25211, 26200>>, <<26201, 27000>>>>
\* A slip that ends the range at the end of the first supported range.
VER_PREINIT_DEVICE_FIRST == <<25211, VERS_SUPPORTED[1][2]>>

VER_PREINIT_DEVICE == <<25211, VERS_SUPPORTED[3][2]>>
VER_RANDOM_SEED == <<25211, VERS_SUPPORTED[3][2]>>

\* boot.py 76-82: the default seed 0xfedcba9876543210, as printed by %x
RandomSeed(random_seed) ==
    IF random_seed = None THEN "fedcba9876543210" ELSE random_seed

\* boot.py 171-186, for a version in VER_PREINIT_DEVICE without a device the
\* call preinit_device.encode fails
MagiskConfig(version, preinit_device, random_seed) ==
    <<"KEEPVERITY=true", "KEEPFORCEENCRYPT=true", "PATCHVBMETAFLAG=false",
      "RECOVERYMODE=false">>
    \o (IF InRange(version, VER_PREINIT_DEVICE)
        THEN <<"PREINITDEVICE=" \o preinit_device>> ELSE <<>>)
    \o <<"SHA1=sha1(image_file)">>
    \o (IF InRange(version, VER_RANDOM_SEED)
        THEN <<"RANDOMSEED=0x" \o RandomSeed(random_seed)>> ELSE <<>>)

\* names an input ramdisk may hold: plain files, and what an earlier Magisk
\* patch of the same image left behind
InputNames ==
    <<".backup", ".backup/.rmlist", "fstab", "init", "overlay.d",
      "overlay.d/sbin/magisk32.xz", "overlay.d/sbin/magisk64.xz">>

\* input ramdisks: entries with distinct names, directories without content,
\* files with content that differs from what the patch writes or equals it
InputRamdisks ==
    UNION {
        {[i \in DOMAIN Sorted(names) |->
              [name |-> Sorted(names)[i],
               content |-> IF Sorted(names)[i] \in {"overlay.d", ".backup"}
                           THEN <<>>
                           ELSE IF Sorted(names)[i] \in same
                           THEN MagiskData(Sorted(names)[i])
                           ELSE <<"old", Sorted(names)[i]>>]] :
            same \in SUBSET (names \ {"overlay.d", "fstab", ".backup",
                                       ".backup/.rmlist"})} :
        names \in {ns \in SUBSET Range(InputNames) :
                      Cardinality(ns) <= MaxRamdiskEntries}}

MagiskVersions == {25102, 26100}

MagiskInputs ==
    {r \in [ramdisks : 0..2,
            ramdisk : InputRamdisks,
            has_stub : BOOLEAN,
            version : MagiskVersions,
            preinit_device : {None, "sda1"},
            random_seed : {None}] :
        r.ramdisks # 1 => r.ramdisk = <<>>}

MagiskStart ==
    /\ ent = <<>>
    /\ entries = <<>>
    /\ old_entries = <<>>
    /\ mg_diff = <<>>
    /\ mg_pc = "load"
    /\ mg_err = None

MagiskInit ==
    /\ mg_in \in MagiskInputs
    /\ MagiskStart
    /\ mg_run = 1
    /\ mg_prev = <<>>
    /\ PlannerIdle
    /\ ZipIdle
    /\ PopenIdle
    /\ BootIdle
    /\ MainIdle
    /\ PatchIdle

\* boot.py 111-126
MgLoad ==
    /\ mg_pc = "load"
    /\ IF mg_in.ramdisks > 1
       THEN /\ mg_pc' = "raised"
            /\ mg_err' = "Boot image is not expected to have ramdisks"
            /\ UNCHANGED <<ent, entries, old_entries>>
       ELSE /\ ent' = mg_in.ramdisk
            /\ entries' = [i \in DOMAIN mg_in.ramdisk |-> i]
            /\ old_entries' = [i \in DOMAIN mg_in.ramdisk |-> i]
            /\ mg_pc' = "build"
            /\ UNCHANGED mg_err
    /\ UNCHANGED <<mg_in, mg_diff, mg_run, mg_prev>>
    /\ UNCHANGED notMagisk

\* boot.py 128-165
MgBuild ==
    /\ mg_pc = "build"
    /\ LET dirs == <<new_directory("overlay.d"),
                     new_directory("overlay.d/sbin")>>
           ent1 == ent \o dirs
           entries1 == entries \o <<Len(ent) + 1, Len(ent) + 2>>
           entries2 == IF mg_in.ramdisks > 0
                       THEN SelectSeq(entries1,
                                      LAMBDA i : ent1[i].name # "init")
                       ELSE entries1
           xz == xz_files(mg_in.has_stub)
           files == <<new_file("init", MagiskData("init"))>> \o
                    [k \in DOMAIN xz |->
                        new_file("overlay.d/sbin/" \o xz[k],
                                 MagiskData("overlay.d/sbin/" \o xz[k]))]
       IN  /\ ent' = ent1 \o files
           /\ entries' = entries2 \o
                         [k \in DOMAIN files |-> Len(ent1) + k]
    /\ mg_pc' = "backup"
    /\ UNCHANGED <<mg_in, old_entries, mg_diff, mg_err, mg_run, mg_prev>>
    /\ UNCHANGED notMagisk

\* A slip that lists the changed names as well.
RmlistNamesWithChanged(added, changed) == added \cup changed

\* boot.py 227: the names that go into .backup/.rmlist
RmlistNames(added, changed) == added

\* boot.py 168, 199-229: _apply_magisk_backup(old_entries, entries).  The
\* loop over the set deleted | changed takes the names in the order the set
\* iterates them.
MgBackup ==
    /\ mg_pc = "backup"
    /\ LET old_by_name == ByName(ent, old_entries)
           new_by_name == ByName(ent, entries)
           added == DOMAIN new_by_name \ DOMAIN old_by_name
           deleted == DOMAIN old_by_name \ DOMAIN new_by_name
           changed == {n \in DOMAIN old_by_name \cap DOMAIN new_by_name :
                          ent[old_by_name[n]].content
                              # ent[new_by_name[n]].content}
           moved == {old_by_name[n] : n \in deleted \cup changed}
           ent1 == [i \in DOMAIN ent |->
                       IF i \in moved
                       THEN [ent[i] EXCEPT !.name = BackupName(@)]
                       ELSE ent[i]]
           listed == RmlistNames(added, changed)
           rmlist_data == [k \in 1..(2 * Cardinality(listed)) |->
                              IF k % 2 = 1 THEN Sorted(listed)[(k + 1) \div 2]
                              ELSE "\\0"]
       IN  \E order \in Perms(deleted \cup changed) :
              /\ ent' = ent1 \o <<new_directory(".backup"),
                                  new_file(".backup/.rmlist", rmlist_data)>>
              /\ entries' = entries \o <<Len(ent) + 1>>
                            \o [k \in DOMAIN order |-> old_by_name[order[k]]]
                            \o <<Len(ent) + 2>>
              /\ mg_diff' = [added |-> added, deleted |-> deleted,
                             changed |-> changed]
    /\ mg_pc' = "config"
    /\ UNCHANGED <<mg_in, old_entries, mg_err, mg_run, mg_prev>>
    /\ UNCHANGED notMagisk

\* boot.py 170-189
MgConfig ==
    /\ mg_pc = "config"
    /\ IF InRange(mg_in.version, VER_PREINIT_DEVICE)
            /\ mg_in.preinit_device = None
       THEN /\ mg_pc' = "raised"
            /\ mg_err' = "AttributeError"
            /\ UNCHANGED <<ent, entries>>
       ELSE /\ ent' = Append(ent, new_file(".backup/.magisk",
                         MagiskConfig(mg_in.version, mg_in.preinit_device,
                                      mg_in.random_seed)))
            /\ entries' = Append(entries, Len(ent) + 1)
            /\ mg_pc' = "done"
            /\ UNCHANGED mg_err
    /\ UNCHANGED <<mg_in, old_entries, mg_diff, mg_run, mg_prev>>
    /\ UNCHANGED notMagisk

\* boot.py 191: the ordered entry list handed to _save_ramdisk
EntryList == [i \in DOMAIN entries |-> ent[entries[i]]]

\* another run of the patch on the same input, in a fresh process
MgRerun ==
    /\ mg_pc \in {"done", "raised"}
    /\ mg_run < 2
    /\ mg_prev' = Append(mg_prev, [err |-> mg_err, list |-> EntryList])
    /\ mg_run' = mg_run + 1
    /\ ent' = <<>>
    /\ entries' = <<>>
    /\ old_entries' = <<>>
    /\ mg_diff' = <<>>
    /\ mg_pc' = "load"
    /\ mg_err' = None
    /\ UNCHANGED mg_in
    /\ UNCHANGED notMagisk

MagiskNext == MgLoad \/ MgBuild \/ MgBackup \/ MgConfig \/ MgRerun

SpecMagisk == MagiskInit /\ [][MagiskNext]_vars

\* ------------------------------------------------------------------------
\* Claims about the Magisk ramdisk transformation
\* ------------------------------------------------------------------------

\* C6: for a fixed input, two runs of the Magisk ramdisk transformation
\* produce the same ordered entry list, whatever order the sets and dicts
\* used inside iterate in.
C6_SameEntryList ==
    (mg_pc = "done" /\ mg_run = 2 /\ mg_prev[1].err = None) =>
        EntryList = mg_prev[1].list

\* ------------------------------------------------------------------------
\* Spec: one patch operation, patch_subcommand -> patch_ota_zip ->
\* patch_ota_payload, with the boot-image workers as threads
\* ------------------------------------------------------------------------

\* main.py 35-42, a dict: the types in insertion order
PARTITION_PRIORITIES ==
    <<[type |-> "@gki_kernel", candidates |-> <<"boot">>],
      [type |-> "@gki_ramdisk", candidates |-> <<"init_boot", "boot">>],
      [type |-> "@otacerts",
       candidates |-> <<"recovery", "vendor_boot", "boot">>]>>

PartitionTypes ==
    {PARTITION_PRIORITIES[k].type : k \in DOMAIN PARTITION_PRIORITIES}

\* A slip that takes the last candidate present.
LastCandidate(candidates, all_partitions) ==
    LET hits == {i \in DOMAIN candidates : candidates[i] \in all_partitions}
    IN  IF hits = {} THEN None
        ELSE candidates[CHOOSE i \in hits : \A j \in hits : i >= j]

\* main.py 70: next((p for p in candidates if p in all_partitions), None)
FirstCandidate(candidates, all_partitions) ==
    LET hits == {i \in DOMAIN candidates : candidates[i] \in all_partitions}
    IN  IF hits = {} THEN None
        ELSE candidates[CHOOSE i \in hits : \A j \in hits : i <= j]

CandidatesOf(t) ==
    PARTITION_PRIORITIES[CHOOSE k \in DOMAIN PARTITION_PRIORITIES :
                            PARTITION_PRIORITIES[k].type = t].candidates

\* main.py 79: f'@vbmeta:{partition}'
VbmetaKey(partition) == "@vbmeta:" \o partition

\* k.startswith('@vbmeta:')
IsVbmetaKey(k) == \E q \in Range(SortedNames) : k = VbmetaKey(q)

\* main.py 66-81; err is the exception raised, value the dict returned
get_partitions_by_type(all_partitions) ==
    IF \E t \in PartitionTypes :
          FirstCandidate(CandidatesOf(t), all_partitions) = None
    THEN [err |-> "ValueError: Cannot find partition of type", value |-> <<>>]
    ELSE LET vb == {q \in all_partitions : IsVbmeta(q)}
         IN  [err |-> None,
              value |->
                [t \in PartitionTypes \cup {VbmetaKey(q) : q \in vb} |->
                    IF t \in PartitionTypes
                    THEN FirstCandidate(CandidatesOf(t), all_partitions)
                    ELSE CHOOSE q \in vb : t = VbmetaKey(q)]]

\* A slip that resolves the boot partition whether or not a root patch is
\* asked for.
get_required_images_rooted(all_partitions, boot_partition, with_root) ==
    LET r == get_partitions_by_type(all_partitions)
        by_type == r.value
        images == [k \in {k \in DOMAIN by_type :
                             k = "@otacerts" \/ IsVbmetaKey(k)} |->
                      by_type[k]]
    IN  IF r.err # None THEN r
        ELSE IF boot_partition \in DOMAIN by_type
        THEN [err |-> None,
              value |-> ("@rootpatch" :> by_type[boot_partition]) @@ images]
        ELSE IF boot_partition \in all_partitions
        THEN [err |-> None,
              value |-> ("@rootpatch" :> boot_partition) @@ images]
        ELSE [err |-> "ValueError: Boot partition not found", value |-> <<>>]

\* main.py 84-98
get_required_images(all_partitions, boot_partition, with_root) ==
    LET r == get_partitions_by_type(all_partitions)
        by_type == r.value
        images == [k \in {k \in DOMAIN by_type :
                             k = "@otacerts" \/ IsVbmetaKey(k)} |->
                      by_type[k]]
    IN  IF r.err # None THEN r
        ELSE IF ~with_root THEN [err |-> None, value |-> images]
        ELSE IF boot_partition \in DOMAIN by_type
        THEN [err |-> None,
              value |-> ("@rootpatch" :> by_type[boot_partition]) @@ images]
        ELSE IF boot_partition \in all_partitions
        THEN [err |-> None,
              value |-> ("@rootpatch" :> boot_partition) @@ images]
        ELSE [err |-> "ValueError: Boot partition not found", value |-> <<>>]

\* A slip that puts the OTA certificate patch in front.
ImagePatchesCertFirst(required, with_root) ==
    LET rooted == IF with_root
                  THEN (required["@rootpatch"] :> <<"root_patch">>)
                  ELSE <<>>
        oc == required["@otacerts"]
    IN  IF oc \in DOMAIN rooted
        THEN [rooted EXCEPT ![oc] = <<"OtaCertPatch">> \o @]
        ELSE rooted @@ (oc :> <<"OtaCertPatch">>)

\* main.py 165-170
ImagePatches(required, with_root) ==
    LET rooted == IF with_root
                  THEN (required["@rootpatch"] :> <<"root_patch">>)
                  ELSE <<>>
        oc == required["@otacerts"]
    IN  IF oc \in DOMAIN rooted
        THEN [rooted EXCEPT ![oc] = Append(@, "OtaCertPatch")]
        ELSE rooted @@ (oc :> <<"OtaCertPatch">>)

\* A slip that forgets the preinit device.
MagiskValidateNoPreinit(version, preinit_device) ==
    IF ~\E k \in DOMAIN VERS_SUPPORTED : InRange(version, VERS_SUPPORTED[k])
    THEN "ValueError: Unsupported Magisk version"
    ELSE None

\* boot.py 94-104: the ValueError validate raises, or None
MagiskValidate(version, preinit_device) ==
    IF ~\E k \in DOMAIN VERS_SUPPORTED : InRange(version, VERS_SUPPORTED[k])
    THEN "ValueError: Unsupported Magisk version"
    ELSE IF preinit_device = None /\ InRange(version, VER_PREINIT_DEVICE)
    THEN "ValueError: requires a preinit device"
    ELSE None

\* A slip that leaves the worker pool without waiting for the workers.
PoolExitNoWait(workers) == TRUE

\* main.py 175-196, leaving the with block: ThreadPoolExecutor.__exit__ is
\* shutdown(wait=True) and returns when every worker has finished
PoolExitReady(workers) ==
    \A i \in DOMAIN workers : workers[i] \in {"done", "raised"}

\* A slip that walks the order from its end.
LoopImageBackwards(order, k) == order[Len(order) + 1 - k]

\* main.py 202: for image in vbmeta_order
LoopImage(order, k) == order[k]

\* the payload manifests
Manifests ==
    {{"boot", "system", "vbmeta"},
     {"boot", "init_boot", "vendor_boot", "system", "vbmeta", "vbmeta_system"},
     {"system", "vbmeta"}}

\* what the descriptors of the vbmeta images may reference
DescriptorChoices(vbimages, all_partitions) ==
    [vbimages -> SUBSET all_partitions] \cap
    {d \in [vbimages -> SUBSET all_partitions] :
        \A n \in vbimages :
           d[n] \subseteq
              (IF n = "vbmeta" THEN {"boot", "vendor_boot", "vbmeta_system"}
               ELSE IF n = "vbmeta_system" THEN {"system", "init_boot", "vbmeta"}
               ELSE {})}

BaseArgs ==
    [manifest |-> {"boot", "system", "vbmeta"},
     replace |-> {},
     boot_partition |-> "@gki_ramdisk",
     root |-> "rootless",
     magisk_version |-> 25102,
     magisk_preinit_device |-> None,
     ignore_magisk_warnings |-> FALSE,
     cert_matches |-> TRUE,
     zip |-> "ok"]

\* Magisk bundle versions: the ends of the supported ranges, their
\* neighbours, and versions inside
MagiskVersionsChecked ==
    {25101, 25102, 25206, 25207, 25210, 25211, 25300, 26100, 26199, 26200,
     26201, 26999, 27000}

\* command lines and inputs: every combination of manifest, replaced images
\* and root patch, and each failure on an otherwise plain input
ArgsSet ==
    {r \in [manifest : Manifests,
            replace : {{}, {"system"}, {"vbmeta"}, {"odm"}},
            boot_partition : {"@gki_ramdisk", "vendor_boot", "odm"},
            root : {"rootless", "magisk", "prepatched"},
            magisk_version : MagiskVersionsChecked,
            magisk_preinit_device : {None, "sda1"},
            ignore_magisk_warnings : BOOLEAN,
            cert_matches : BOOLEAN,
            zip : {"ok", "missing", "compressed"}] :
        /\ r.root # "magisk" =>
              /\ r.magisk_version = 25102
              /\ r.magisk_preinit_device = None
              /\ ~r.ignore_magisk_warnings
        /\ r.magisk_version = 25102 => r.magisk_preinit_device = None
        /\ r.magisk_version \notin {25102, 25300} =>
              r = [BaseArgs EXCEPT
                      !.root = "magisk",
                      !.magisk_version = r.magisk_version,
                      !.magisk_preinit_device = r.magisk_preinit_device,
                      !.ignore_magisk_warnings = r.ignore_magisk_warnings]
        /\ r.ignore_magisk_warnings =>
              MagiskValidate(r.magisk_version, r.magisk_preinit_device) # None
        /\ r.boot_partition # "@gki_ramdisk" =>
              r = [BaseArgs EXCEPT !.boot_partition = r.boot_partition,
                                   !.manifest = r.manifest,
                                   !.root = "magisk"]
        /\ ~r.cert_matches => r = [BaseArgs EXCEPT !.cert_matches = FALSE]
        /\ r.zip # "ok" => r = [BaseArgs EXCEPT !.zip = r.zip]}

Init ==
    /\ args \in ArgsSet
    /\ main_pc = "start"
    /\ main_err = None
    /\ out_file = "absent"
    /\ required_images = <<>>
    /\ image_patches = <<>>
    /\ w_pc = <<>>
    /\ consumed = {}
    /\ vb_next = 0
    /\ rebuilt = <<>>
    /\ payload_images = None
    /\ warnings = <<>>
    /\ w_err = <<>>
    /\ boot_runs = <<>>
    /\ PlannerIdle
    /\ ZipIdle
    /\ PopenIdle
    /\ BootIdle
    /\ MagiskIdle
    /\ PatchIdle

notController == <<args, out_file, required_images, image_patches, consumed,
                   vb_next, rebuilt, payload_images, warnings>>

\* main.py 411-453
SubStart ==
    /\ main_pc = "start"
    /\ LET verr == IF args.root = "magisk"
                   THEN MagiskValidate(args.magisk_version,
                                       args.magisk_preinit_device)
                   ELSE None
       IN  IF verr # None /\ ~args.ignore_magisk_warnings
           THEN /\ main_pc' = "raised"
                /\ main_err' = verr
           ELSE IF ~args.cert_matches
           THEN /\ main_pc' = "raised"
                /\ main_err' = "OTA certificate does not match private key"
           ELSE /\ main_pc' = "open"
                /\ UNCHANGED main_err
    /\ warnings' = IF args.root = "magisk" /\ args.ignore_magisk_warnings
                       /\ MagiskValidate(args.magisk_version,
                                         args.magisk_preinit_device) # None
                    THEN Append(warnings,
                                MagiskValidate(args.magisk_version,
                                               args.magisk_preinit_device))
                    ELSE warnings
    /\ UNCHANGED <<args, boot_runs, out_file, required_images, image_patches,
                   consumed, vb_next, rebuilt, payload_images, w_pc, w_err,
                   plannerVars>>
    /\ UNCHANGED notMain

\* main.py 455: util.open_output_file(output) creates the staging file
SubOpen ==
    /\ main_pc = "open"
    /\ out_file' = "staging"
    /\ main_pc' = "zip"
    /\ UNCHANGED <<args, boot_runs, warnings, w_err, main_err,
                   required_images, image_patches, w_pc,
                   consumed, vb_next, rebuilt, payload_images, plannerVars>>
    /\ UNCHANGED notMain

\* main.py 291-371: patch_ota_zip up to the call of patch_ota_payload
ZipBegin ==
    /\ main_pc = "zip"
    /\ IF args.zip = "missing"
       THEN /\ main_err' = "Missing files in zip"
            /\ main_pc' = "close"
       ELSE IF args.zip = "compressed"
       THEN /\ main_err' = "payload.bin is not stored uncompressed"
            /\ main_pc' = "close"
       ELSE /\ main_pc' = "prepare"
            /\ UNCHANGED main_err
    /\ UNCHANGED <<notController, boot_runs, w_pc, w_err, plannerVars>>
    /\ UNCHANGED notMain

\* main.py 136-170
PayloadPrepare ==
    /\ main_pc = "prepare"
    /\ LET all_partitions == args.manifest
           with_root == args.root # "rootless"
           req == get_required_images(all_partitions, args.boot_partition,
                                      with_root)
           replaced == [n \in args.replace |-> <<"replace", n>>]
           to_extract == {req.value[k] : k \in DOMAIN req.value} \ args.replace
       IN  IF \E n \in args.replace : n \notin all_partitions
           THEN /\ main_err' = "Cannot replace non-existent partition"
                /\ main_pc' = "close"
                /\ UNCHANGED <<required_images, image_patches, image_paths,
                               vbmeta_images>>
           ELSE IF req.err # None
           THEN /\ main_err' = req.err
                /\ main_pc' = "close"
                /\ image_paths' = replaced
                /\ UNCHANGED <<required_images, image_patches, vbmeta_images>>
           ELSE /\ required_images' = req.value
                /\ vbmeta_images' = {req.value[k] :
                                        k \in {k \in DOMAIN req.value :
                                                  IsVbmetaKey(k)}}
                /\ image_paths' = replaced @@
                                  [n \in to_extract |-> <<"extract", n>>]
                /\ image_patches' = ImagePatches(req.value, with_root)
                /\ main_pc' = "submit"
                /\ UNCHANGED main_err
    /\ UNCHANGED <<args, boot_runs, warnings, w_err, out_file, w_pc,
                   consumed, vb_next, rebuilt,
                   payload_images, descriptors, dep_graph, vbmeta_deps,
                   vbmeta_order>>
    /\ UNCHANGED notMain

\* main.py 175-194: one worker thread per image of image_patches
Submit ==
    /\ main_pc = "submit"
    /\ w_pc' = [i \in DOMAIN image_patches |-> "running"]
    /\ w_err' = [i \in DOMAIN image_patches |-> None]
    /\ boot_runs' = [i \in DOMAIN image_patches |-> <<>>]
    /\ main_pc' = "wait"
    /\ UNCHANGED <<notController, main_err, plannerVars>>
    /\ UNCHANGED notMain

\* boot.py 178-180: preinit_device.encode fails on None
MagiskConfigError(version, preinit_device) ==
    IF InRange(version, VER_PREINIT_DEVICE) /\ preinit_device = None
    THEN "AttributeError: NoneType has no attribute encode"
    ELSE None

\* what the root patch of the command line raises when nothing else fails
RootPatchError(a) ==
    IF a.root = "magisk"
    THEN MagiskConfigError(a.magisk_version, a.magisk_preinit_device)
    ELSE None

\* boot.py 437-481: what one run of patch_boot does to its work file when
\* it stops at step stop: 0 is before the file is opened, k the k-th patch
\* function raising, Len(patch_funcs) + 1 add_hash_footer raising and
\* Len(patch_funcs) + 2 the end of the run
PatchBootEvents(patch_funcs, stop) ==
    IF stop = 0 THEN <<>>
    ELSE <<"erase_footer">>
         \o [k \in 1..(IF stop <= Len(patch_funcs) THEN stop - 1
                       ELSE Len(patch_funcs)) |-> patch_funcs[k]]
         \o (IF stop = Len(patch_funcs) + 2 THEN <<"add_hash_footer">>
             ELSE <<>>)

\* main.py 177-188: a worker runs boot.patch_boot with the patches of its
\* image; patch_boot may raise for what the image holds, at any of its steps,
\* and the Magisk patch raises when it cannot write its config
WkPatchBoot(i) ==
    /\ w_pc[i] = "running"
    /\ LET patches == image_patches[i]
           root_at == IF \E k \in DOMAIN patches : patches[k] = "root_patch"
                      THEN CHOOSE k \in DOMAIN patches :
                              patches[k] = "root_patch"
                      ELSE 0
           root_err == IF root_at = 0 THEN None ELSE RootPatchError(args)
       IN  \E stop \in 0..(Len(patches) + 2) :
              /\ root_err # None => stop <= root_at
              /\ LET err == IF stop = Len(patches) + 2 THEN None
                            ELSE IF stop = root_at /\ root_err # None
                                 THEN root_err
                                 ELSE "patch_boot raised"
                 IN  /\ w_pc' = [w_pc EXCEPT ![i] = IF err = None
                                                    THEN "patched"
                                                    ELSE "raised"]
                     /\ w_err' = [w_err EXCEPT ![i] = err]
              /\ boot_runs' = [boot_runs EXCEPT ![i] =
                                  Append(@, PatchBootEvents(patches, stop))]
    /\ UNCHANGED <<notController, main_pc, main_err, plannerVars>>
    /\ UNCHANGED notMain

\* main.py 190: image_paths[image] = patched_path
WkSetPath(i) ==
    /\ w_pc[i] = "patched"
    /\ image_paths' = [image_paths EXCEPT ![i] = <<"patch", i>>]
    /\ w_pc' = [w_pc EXCEPT ![i] = "done"]
    /\ UNCHANGED <<notController, boot_runs, main_pc, main_err, w_err,
                   vbmeta_images,
                   descriptors, dep_graph, vbmeta_deps, vbmeta_order>>
    /\ UNCHANGED notMain

\* main.py 195-196: as_completed hands over a finished future and result()
\* raises what the worker raised
CtlResult ==
    /\ main_pc = "wait"
    /\ \E i \in DOMAIN w_pc \ consumed :
          /\ w_pc[i] \in {"done", "raised"}
          /\ consumed' = consumed \cup {i}
          /\ IF w_pc[i] = "raised"
             THEN /\ main_err' = w_err[i]
                  /\ main_pc' = "pool_exit"
             ELSE /\ UNCHANGED main_err
                  /\ main_pc' = IF consumed' = DOMAIN w_pc
                                THEN "pool_exit" ELSE "wait"
    /\ UNCHANGED <<args, boot_runs, warnings, w_err, out_file,
                   required_images, image_patches, w_pc,
                   vb_next, rebuilt, payload_images, plannerVars>>
    /\ UNCHANGED notMain

\* main.py 175: the with block of the executor is left
PoolExit ==
    /\ main_pc = "pool_exit"
    /\ PoolExitReady(w_pc)
    /\ main_pc' = IF main_err = None THEN "plan" ELSE "close"
    /\ UNCHANGED <<notController, boot_runs, main_err, w_pc, w_err, plannerVars>>
    /\ UNCHANGED notMain

\* main.py 198-199: get_vbmeta_patch_order, on what the vbmeta images hold
Plan ==
    /\ main_pc = "plan"
    /\ \E desc \in DescriptorChoices(vbmeta_images, args.manifest) :
          LET graph == ElideLoop(
                          RestrictGraph(get_vbmeta_deps(desc, vbmeta_images),
                                        image_paths),
                          vbmeta_images)
          IN  /\ descriptors' = desc
              /\ dep_graph' = graph
              /\ IF HasCycle(graph)
                 THEN /\ main_err' = "CycleError"
                      /\ main_pc' = "close"
                      /\ UNCHANGED <<vbmeta_deps, vbmeta_order, vb_next>>
                 ELSE /\ \E ks \in Perms(DOMAIN graph) :
                           \E ps \in PredSeqs(graph) :
                              vbmeta_order' =
                                 VbmetaOrder(graph, vbmeta_images, ks, ps)
                      /\ vbmeta_deps' = graph
                      /\ vb_next' = 1
                      /\ main_pc' = "vbmeta"
                      /\ UNCHANGED main_err
    /\ UNCHANGED <<args, boot_runs, warnings, w_err, out_file,
                   required_images, image_patches, w_pc,
                   consumed, rebuilt, payload_images, image_paths,
                   vbmeta_images>>
    /\ UNCHANGED notMain

\* main.py 202-217: one pass of the loop; vbmeta.patch_vbmeta_image may raise
RebuildVbmeta ==
    /\ main_pc = "vbmeta"
    /\ vb_next <= Len(vbmeta_order)
    /\ LET image == LoopImage(vbmeta_order, vb_next)
           handed == [n \in {n \in DOMAIN image_paths :
                                n \in vbmeta_deps[image]} |->
                         image_paths[n]]
       IN  \E ok \in BOOLEAN :
              IF ok
              THEN /\ rebuilt' = Append(rebuilt,
                        [image |-> image, deps |-> handed,
                         input |-> image_paths[image],
                         unfinished |-> {i \in DOMAIN w_pc :
                                            w_pc[i] \notin {"done", "raised"}}])
                   /\ image_paths' = [image_paths EXCEPT
                                         ![image] = <<"patch", image>>]
                   /\ vb_next' = vb_next + 1
                   /\ UNCHANGED <<main_pc, main_err>>
              ELSE /\ main_err' = "patch_vbmeta_image raised"
                   /\ main_pc' = "close"
                   /\ UNCHANGED <<rebuilt, image_paths, vb_next>>
    /\ UNCHANGED <<args, boot_runs, warnings, w_err, out_file,
                   required_images, image_patches, w_pc,
                   consumed, payload_images, vbmeta_images, descriptors,
                   dep_graph, vbmeta_deps, vbmeta_order>>
    /\ UNCHANGED notMain

\* main.py 219-236: untouched vbmeta images are dropped and the payload is
\* written again; ota.patch_payload may raise
PayloadEmit ==
    /\ main_pc = "vbmeta"
    /\ vb_next > Len(vbmeta_order)
    /\ image_paths' = [n \in DOMAIN image_paths \
                                (vbmeta_images \ Range(vbmeta_order)) |->
                          image_paths[n]]
    /\ \E ok \in BOOLEAN :
          IF ok
          THEN /\ payload_images' = image_paths'
               /\ main_pc' = "zip_rest"
               /\ UNCHANGED main_err
          ELSE /\ main_err' = "patch_payload raised"
               /\ main_pc' = "close"
               /\ UNCHANGED payload_images
    /\ UNCHANGED <<args, boot_runs, warnings, w_err, out_file,
                   required_images, image_patches, w_pc,
                   consumed, vb_next, rebuilt, vbmeta_images, descriptors,
                   dep_graph, vbmeta_deps, vbmeta_order>>
    /\ UNCHANGED notMain

\* main.py 373-408 and 474-479: the rest of the zip, the metadata and the
\* verification of the offsets; each may raise
ZipRest ==
    /\ main_pc = "zip_rest"
    /\ \E ok \in BOOLEAN :
          main_err' = IF ok THEN None ELSE "zip or metadata error"
    /\ main_pc' = "close"
    /\ UNCHANGED <<notController, boot_runs, w_pc, w_err, plannerVars>>
    /\ UNCHANGED notMain

\* main.py 455, leaving util.open_output_file: the staging file is moved to
\* the output path on success and unlinked on failure
SubClose ==
    /\ main_pc = "close"
    /\ IF main_err = None
       THEN /\ out_file' = "final"
            /\ main_pc' = "done"
       ELSE /\ out_file' = "absent"
            /\ main_pc' = "raised"
    /\ UNCHANGED <<args, boot_runs, warnings, w_err, main_err,
                   required_images, image_patches, w_pc,
                   consumed, vb_next, rebuilt, payload_images, plannerVars>>
    /\ UNCHANGED notMain

Next ==
    \/ SubStart
    \/ SubOpen
    \/ ZipBegin
    \/ PayloadPrepare
    \/ Submit
    \/ \E i \in DOMAIN w_pc : WkPatchBoot(i)
    \/ \E i \in DOMAIN w_pc : WkSetPath(i)
    \/ CtlResult
    \/ PoolExit
    \/ Plan
    \/ RebuildVbmeta
    \/ PayloadEmit
    \/ ZipRest
    \/ SubClose

Spec == Init /\ [][Next]_vars

\* ------------------------------------------------------------------------
\* Claims about the patch operation
\* ------------------------------------------------------------------------

\* C2: a vbmeta image is rebuilt only after every boot-image patch worker
\* has finished and after every vbmeta image in its reduced dependency set
\* has been rebuilt; every dependency path handed to patch_vbmeta_image is
\* the dependency's final path (the patched one for a patched image).
C2_RebuildAfterDeps ==
    \A k \in DOMAIN rebuilt :
       LET c == rebuilt[k]
       IN  /\ c.unfinished = {}
           /\ DOMAIN c.deps = vbmeta_deps[c.image]
           /\ \A d \in DOMAIN c.deps :
                 /\ d \in DOMAIN image_paths
                 /\ c.deps[d] = image_paths[d]
                 /\ d \in vbmeta_images =>
                       \E j \in 1..(k - 1) : rebuilt[j].image = d
                 /\ d \in DOMAIN image_patches \/ d \in vbmeta_images =>
                       c.deps[d] = <<"patch", d>>

C2_Witness ==
    /\ Len(rebuilt) = 2
    /\ rebuilt[1].image \in DOMAIN rebuilt[2].deps
    /\ Cardinality(DOMAIN w_pc) = 2
    /\ \E d \in DOMAIN image_patches : d \in DOMAIN rebuilt[1].deps
    /\ main_pc = "done"

\* C8: when a boot-patch worker raises, the controller does not leave the
\* worker pool before every dispatched worker has finished, no vbmeta image
\* is rebuilt and no payload is written afterwards, the error is what
\* patch_subcommand raises, and the output path is never created from the
\* staging file.
C8_WorkerErrorAborts ==
    (\E i \in DOMAIN w_pc : w_pc[i] = "raised") =>
        /\ rebuilt = <<>>
        /\ payload_images = None
        /\ main_pc \in {"wait", "pool_exit", "close", "raised"}
        /\ main_pc \in {"close", "raised"} =>
              /\ \A i \in DOMAIN w_pc : w_pc[i] \in {"done", "raised"}
              /\ \E i \in consumed : w_pc[i] = "raised" /\ main_err = w_err[i]
        /\ out_file # "final"
        /\ main_pc = "raised" => out_file = "absent"

C8_Witness ==
    /\ main_pc = "raised"
    /\ out_file = "absent"
    /\ \E i \in DOMAIN w_pc : w_pc[i] = "raised"
    /\ \E i \in DOMAIN w_pc : w_pc[i] = "done" /\ i \notin consumed

\* the errors MagiskRootPatch.validate raises
ValidateErrors ==
    {"ValueError: Unsupported Magisk version",
     "ValueError: requires a preinit device"}

\* C11: validate succeeds exactly when the version lies in
\* [25102,25207), [25211,26200) or [26201,27000) and, for a version in the
\* range that requires a preinit device, a device was given; without
\* --ignore-magisk-warnings a validation failure makes patch_subcommand
\* raise before the output file is opened.
C11_ValidateExact ==
    (main_pc # "start" /\ args.root = "magisk") =>
        LET v == args.magisk_version
            supported == \/ (25102 <= v /\ v < 25207)
                         \/ (25211 <= v /\ v < 26200)
                         \/ (26201 <= v /\ v < 27000)
            needs_preinit == InRange(v, VER_PREINIT_DEVICE)
            valid == supported /\
                     (needs_preinit => args.magisk_preinit_device # None)
            failed == main_err \in ValidateErrors \/ warnings # <<>>
        IN  /\ valid <=> ~failed
            /\ (~valid /\ ~args.ignore_magisk_warnings) =>
                  /\ main_pc = "raised"
                  /\ main_err \in ValidateErrors
                  /\ out_file = "absent"
                  /\ w_pc = <<>>
                  /\ warnings = <<>>

C11_Witness ==
    /\ main_pc = "raised"
    /\ args.root = "magisk"
    /\ args.magisk_version = 25300
    /\ args.magisk_preinit_device = None
    /\ main_err = "ValueError: requires a preinit device"
    /\ out_file = "absent"

\* C13: with --ignore-magisk-warnings every failure of validate is reported
\* as a warning, and the patch operation is then not aborted because of the
\* condition validate complained about.
C13_IgnoredWarningNeverAborts ==
    ( /\ main_pc # "start"
      /\ args.root = "magisk"
      /\ args.ignore_magisk_warnings
      /\ MagiskValidate(args.magisk_version,
                        args.magisk_preinit_device) # None ) =>
        /\ warnings = <<MagiskValidate(args.magisk_version,
                                       args.magisk_preinit_device)>>
        /\ main_err \notin ValidateErrors
        /\ \A i \in DOMAIN w_err :
              w_err[i] # "AttributeError: NoneType has no attribute encode"

\* the content of the entry .backup/.magisk of the entry list
MagiskConfigWritten ==
    LET hits == {i \in DOMAIN EntryList :
                    EntryList[i].name = ".backup/.magisk"}
    IN  EntryList[CHOOSE i \in hits : \A j \in hits : j <= i].content

FixedConfigLines ==
    <<"KEEPVERITY=true", "KEEPFORCEENCRYPT=true", "PATCHVBMETAFLAG=false",
      "RECOVERYMODE=false">>

\* a run of the patch for bundle version 26100 with the default seed that
\* got past the check of the ramdisk count
Run26100 ==
    /\ mg_in.version = 26100
    /\ mg_in.random_seed = None
    /\ mg_in.ramdisks <= 1
    /\ mg_pc \in {"done", "raised"}

\* C12 as stated: for bundle version 26100 with the default seed no preinit
\* device is required, and .backup/.magisk holds the four fixed lines and
\* the SHA1 line, without PREINITDEVICE and without RANDOMSEED.
C12_PlainConfig ==
    Run26100 =>
        /\ mg_pc = "done"
        /\ MagiskConfigWritten =
              FixedConfigLines \o <<"SHA1=sha1(image_file)">>

\* C12 amended: for bundle version 26100 with the default seed a preinit
\* device is required (validate rejects its absence and the patch raises
\* without one), and with a device .backup/.magisk holds the four fixed
\* lines, the PREINITDEVICE line, the SHA1 line and the RANDOMSEED line of
\* the default seed.
C12_ConfigWithPreinitAndSeed ==
    Run26100 =>
        /\ MagiskValidate(mg_in.version, None) # None
        /\ mg_in.preinit_device = None => mg_pc = "raised"
        /\ mg_in.preinit_device # None =>
              /\ mg_pc = "done"
              /\ MagiskConfigWritten =
                    FixedConfigLines
                    \o <<"PREINITDEVICE=" \o mg_in.preinit_device,
                         "SHA1=sha1(image_file)",
                         "RANDOMSEED=0xfedcba9876543210">>

C12_Witness ==
    /\ Run26100
    /\ mg_in.preinit_device = "sda1"
    /\ mg_pc = "done"
    /\ Len(MagiskConfigWritten) = 7

\* names and contents of the input ramdisk, and what the patch writes
OldNames == {mg_in.ramdisk[i].name : i \in DOMAIN mg_in.ramdisk}

OldContent(n) ==
    mg_in.ramdisk[CHOOSE i \in DOMAIN mg_in.ramdisk :
                     mg_in.ramdisk[i].name = n].content

PatchFiles ==
    {"init"} \cup
    {"overlay.d/sbin/" \o xz_files(mg_in.has_stub)[k] :
        k \in DOMAIN xz_files(mg_in.has_stub)}

PatchDirs == {"overlay.d", "overlay.d/sbin"}

\* the content of the last entry .backup/.rmlist of the entry list
RmlistWritten ==
    LET hits == {i \in DOMAIN EntryList :
                    EntryList[i].name = ".backup/.rmlist"}
    IN  EntryList[CHOOSE i \in hits : \A j \in hits : j <= i].content

\* C14: after the transformation, every name of old_entries that is missing
\* from new_entries or whose content differs has an entry .backup/<name>
\* with the old content in the final ramdisk; every name of new_entries that
\* is not in old_entries is in .backup/.rmlist exactly once, the names in
\* sorted order and each followed by a NUL byte.
C14_BackupClosure ==
    mg_pc = "done" =>
        LET added   == (PatchFiles \cup PatchDirs) \ OldNames
            changed == {n \in OldNames \cap PatchFiles :
                           OldContent(n) # <<"magisk", n>>}
            rm      == RmlistWritten
        IN  /\ mg_diff.added = added
            /\ mg_diff.deleted = {}
            /\ mg_diff.changed = changed
            /\ \A n \in changed :
                  \E i \in DOMAIN EntryList :
                     /\ EntryList[i].name = ".backup/" \o n
                     /\ EntryList[i].content = OldContent(n)
            /\ Len(rm) = 2 * Cardinality(added)
            /\ \A n \in added :
                  Cardinality({k \in DOMAIN rm : rm[k] = n}) = 1
            /\ \A k \in DOMAIN rm :
                  IF k % 2 = 0 THEN rm[k] = "\\0" ELSE rm[k] \in added
            /\ \A j \in DOMAIN rm : \A k \in DOMAIN rm :
                  (j % 2 = 1 /\ k % 2 = 1 /\ j < k) =>
                      Pos(RamdiskNames, rm[j]) < Pos(RamdiskNames, rm[k])

C14_Witness ==
    /\ mg_pc = "done"
    /\ Cardinality(mg_diff.changed) >= 2
    /\ Cardinality(mg_diff.added) >= 2
    /\ ".backup/.rmlist" \in OldNames

\* C15: for an input ramdisk with unique names, the entry list handed to
\* the ramdisk save has no two entries of the same name and exactly one
\* entry named init.
C15_UniqueNames ==
    mg_pc = "done" =>
        /\ \A i \in DOMAIN EntryList : \A j \in DOMAIN EntryList :
              i # j => EntryList[i].name # EntryList[j].name
        /\ Cardinality({i \in DOMAIN EntryList :
                           EntryList[i].name = "init"}) = 1

\* ------------------------------------------------------------------------
\* OtaCertPatch.patch (boot.py 233-283)
\* ------------------------------------------------------------------------

\* Largest number of ramdisks of a boot image.
MaxRamdisks == 2

\* boot.py 238
OTACERTS_PATH == "system/etc/security/otacerts.zip"

\* boot.py 262-274: the archive holding ota.x509.pem, the copy of cert_ota
NewOtacerts == <<"zip", "ota.x509.pem", "cert_ota">>

\* A ramdisk is its compression format, its cpio entries and the packer that
\* wrote it: two ramdisks are the same bytes when all three agree.
\* boot.py 18-23
_load_ramdisk(ramdisk) == [entries |-> ramdisk.entries, format |-> ramdisk.format]

\* boot.py 26-31
_save_ramdisk(ents, format) ==
    [format |-> format, entries |-> ents, packer |-> "avbroot"]

\* boot.py 253-254: next((e for e in entries if e.name == OTACERTS_PATH), None)
FirstOtacerts(ents) ==
    LET hits == {k \in DOMAIN ents : ents[k].name = OTACERTS_PATH}
    IN  IF hits = {} THEN 0 ELSE CHOOSE k \in hits : \A j \in hits : k <= j

\* A slip that never reports the missing entry.
NotFoundNever(found) == FALSE

\* boot.py 280: if not found_otacerts
NotFound(found) == ~found

OtaCertEntryLists ==
    { <<>>,
      << [name |-> "init", content |-> <<"stock", "init">>] >> }
    \cup
    UNION {
      { << [name |-> OTACERTS_PATH, content |-> c] >>,
        << [name |-> "init", content |-> <<"stock", "init">>],
           [name |-> OTACERTS_PATH, content |-> c] >> } :
      c \in { <<"zip", "stock certs">>, NewOtacerts } }

OtaCertRamdisks ==
    [format : {"gzip", "lz4_legacy"},
     entries : OtaCertEntryLists,
     packer : {"stock", "avbroot"}]

OtaCertImages ==
    UNION {[1..n -> OtaCertRamdisks] : n \in 0..MaxRamdisks}

\* boot.py 243-244
OtaCertInit ==
    /\ oc_in \in OtaCertImages
    /\ oc_ramdisks = oc_in
    /\ oc_i = 0
    /\ found_otacerts = FALSE
    /\ oc_pc = "loop"
    /\ PlannerIdle
    /\ ZipIdle
    /\ PopenIdle
    /\ BootIdle
    /\ MagiskIdle
    /\ MainIdle
    /\ PrepatchedIdle
    /\ PartitionsIdle
    /\ StripIdle

\* boot.py 247-278: one pass of the loop over the ramdisks
OcRamdisk ==
    /\ oc_pc = "loop"
    /\ oc_i < Len(oc_ramdisks)
    /\ LET i        == oc_i + 1
           loaded   == _load_ramdisk(oc_ramdisks[i])
           otacerts == FirstOtacerts(loaded.entries)
       IN  IF otacerts = 0
           THEN UNCHANGED <<oc_ramdisks, found_otacerts>>
           ELSE /\ found_otacerts' = TRUE
                /\ oc_ramdisks' =
                      [oc_ramdisks EXCEPT ![i] =
                          _save_ramdisk(
                              [loaded.entries EXCEPT
                                  ![otacerts].content = NewOtacerts],
                              loaded.format)]
    /\ oc_i' = oc_i + 1
    /\ UNCHANGED <<oc_in, oc_pc>>
    /\ UNCHANGED notOtaCert

\* boot.py 280-283
OcFinish ==
    /\ oc_pc = "loop"
    /\ oc_i = Len(oc_ramdisks)
    /\ oc_pc' = IF NotFound(found_otacerts) THEN "raised" ELSE "returned"
    /\ UNCHANGED <<oc_in, oc_ramdisks, oc_i, found_otacerts>>
    /\ UNCHANGED notOtaCert

OtaCertNext == OcRamdisk \/ OcFinish

SpecOtaCert == OtaCertInit /\ [][OtaCertNext]_vars

HasOtacerts(ramdisk) ==
    \E k \in DOMAIN ramdisk.entries : ramdisk.entries[k].name = OTACERTS_PATH

\* C16: OtaCertPatch.patch returns exactly when some ramdisk of the image
\* holds system/etc/security/otacerts.zip and raises otherwise; when it
\* returns, every ramdisk holding the entry has it replaced by the new
\* archive with all its other entries unchanged, and every ramdisk without
\* the entry is the same bytes as before.
C16_OtacertsReplaced ==
    oc_pc \in {"returned", "raised"} =>
        /\ oc_pc = "returned" <=> \E i \in DOMAIN oc_in : HasOtacerts(oc_in[i])
        /\ Len(oc_ramdisks) = Len(oc_in)
        /\ \A i \in DOMAIN oc_in :
              IF HasOtacerts(oc_in[i])
              THEN /\ oc_ramdisks[i].format = oc_in[i].format
                   /\ Len(oc_ramdisks[i].entries) = Len(oc_in[i].entries)
                   /\ \A k \in DOMAIN oc_in[i].entries :
                         /\ oc_ramdisks[i].entries[k].name =
                               oc_in[i].entries[k].name
                         /\ oc_ramdisks[i].entries[k].content =
                               IF oc_in[i].entries[k].name = OTACERTS_PATH
                               THEN <<"zip", "ota.x509.pem", "cert_ota">>
                               ELSE oc_in[i].entries[k].content
              ELSE oc_ramdisks[i] = oc_in[i]

C16_Witness ==
    /\ oc_pc = "returned"
    /\ Len(oc_in) = 2
    /\ ~HasOtacerts(oc_in[1])
    /\ oc_in[1].packer = "stock"
    /\ HasOtacerts(oc_in[2])
    /\ oc_in[2] # oc_ramdisks[2]
    /\ Len(oc_in[2].entries) = 2

\* ------------------------------------------------------------------------
\* PrepatchedImage.patch (boot.py 286-394)
\* ------------------------------------------------------------------------

\* Largest number of divergences between the two images of one run.
MaxDivergences == 2

\* fields of to_dict() and the optional sections (boot.py 337)
HeaderFields == {"id", "os_version", "cmdline", "extra_cmdline", "page_size"}

SectionAttrs == {"kernel", "second", "recovery_dtbo", "dtb", "bootconfig"}

\* the sections the original image has unless a divergence says otherwise
StockSections == {"kernel", "dtb"}

\* The ways the prepatched image may differ from the original.
Divergences ==
    {<<"field", f, kind>> : f \in HeaderFields,
                            kind \in {"changed", "added", "removed"}}
    \cup {<<"section", a, kind>> : a \in SectionAttrs,
                                   kind \in {"added", "removed"}}
    \cup {<<"ramdisks", "decreased">>, <<"ramdisks", "increased">>, <<"kmi">>}

\* what a divergence is about: a field, a section or the ramdisk count
Subject(d) == IF Len(d) = 3 THEN <<d[1], d[2]>> ELSE <<d[1]>>

RECURSIVE SubsetsUpTo(_, _)
\* the subsets of S of at most k elements
SubsetsUpTo(S, k) ==
    IF k = 0 THEN {{}}
    ELSE LET smaller == SubsetsUpTo(S, k - 1)
         IN  smaller \cup {s \cup {x} : s \in smaller, x \in S}

DivergenceSets ==
    {ds \in SubsetsUpTo(Divergences, MaxDivergences) :
        /\ \A d1 \in ds : \A d2 \in ds : Subject(d1) = Subject(d2) => d1 = d2
        /\ <<"kmi">> \in ds =>
              ds \cap {<<"section", "kernel", "added">>,
                       <<"section", "kernel", "removed">>} = {}}

\* the original image of a set of divergences
OriginalOf(ds) ==
    [header   |-> [f \in {f \in HeaderFields :
                             <<"field", f, "added">> \notin ds} |-> "a"],
     sections |-> [a \in SectionAttrs |->
                      IF <<"section", a, "added">> \in ds THEN None
                      ELSE IF a \in StockSections
                              \/ <<"section", a, "removed">> \in ds
                           THEN IF a = "kernel"
                                THEN "Linux version 5.10.1-android12-9-"
                                ELSE "data"
                           ELSE None],
     ramdisks |-> 1]

\* the prepatched image of a set of divergences
PrepatchedOf(ds) ==
    [header   |-> [f \in {f \in HeaderFields :
                             <<"field", f, "removed">> \notin ds} |->
                      IF <<"field", f, "changed">> \in ds THEN "b" ELSE "a"],
     sections |-> [a \in SectionAttrs |->
                      IF <<"section", a, "removed">> \in ds THEN None
                      ELSE IF a \in StockSections
                              \/ <<"section", a, "added">> \in ds
                           THEN IF a = "kernel"
                                THEN IF <<"kmi">> \in ds
                                     THEN "Linux version 5.15.2-android13-8-"
                                     ELSE "Linux version 5.10.1-android12-9-"
                                ELSE "data"
                           ELSE None],
     ramdisks |-> IF <<"ramdisks", "decreased">> \in ds THEN 0
                  ELSE IF <<"ramdisks", "increased">> \in ds THEN 2
                  ELSE 1]

\* A slip that ranks a changed id like a changed cmdline.
HeaderLevelIdRaised(k) ==
    IF k = "os_version" THEN 0
    ELSE IF k \in {"id", "cmdline", "extra_cmdline"} THEN 1
    ELSE 2

\* boot.py 327-332
HeaderLevel(k) ==
    IF k \in {"id", "os_version"} THEN 0
    ELSE IF k \in {"cmdline", "extra_cmdline"} THEN 1
    ELSE 2

\* A slip that reports every change of the number of ramdisks.
RamdisksDiffer(old, new) == new # old

\* boot.py 346
RamdisksDecreased(old, new) == new < old

\* boot.py 378-394: the match of VERSION_REGEX in a kernel
KmiOf(kernel) ==
    IF kernel = "Linux version 5.10.1-android12-9-" THEN "5.10-android12-9"
    ELSE IF kernel = "Linux version 5.15.2-android13-8-"
         THEN "5.15-android13-8"
         ELSE None

\* boot.py 311-349: the issues found before the kernel versions are read,
\* by level; each list is kept as the set of its elements
IssuesFound(old, new) ==
    LET old_keys == DOMAIN old.header
        new_keys == DOMAIN new.header
        changed  == {k \in old_keys \cap new_keys :
                        old.header[k] # new.header[k]}
        at(l) ==
            {<<"header field was changed", k>> :
                k \in {k \in changed : HeaderLevel(k) = l}}
    IN  << at(0),
           at(1) \cup
              {<<"section was added", a>> :
                  a \in {a \in SectionAttrs :
                            old.sections[a] = None /\ new.sections[a] # None}},
           at(2) \cup
              {<<"header field was added", k>> : k \in new_keys \ old_keys}
              \cup
              {<<"header field was removed", k>> : k \in old_keys \ new_keys}
              \cup
              {<<"section was removed", a>> :
                  a \in {a \in SectionAttrs :
                            old.sections[a] # None /\ new.sections[a] = None}}
              \cup
              (IF RamdisksDecreased(old.ramdisks, new.ramdisks)
               THEN {<<"Number of ramdisk sections decreased">>}
               ELSE {}) >>

\* boot.py 359-364: the issues of the levels i with
\* MIN_LEVEL <= i < min(MAX_LEVEL + 1, fatal_level)
WarningsOf(found, fatal_level) ==
    UNION {found[i + 1] : i \in {i \in 0..2 : i < fatal_level}}

\* boot.py 362-364: the issues of the levels i with
\* max(MIN_LEVEL, fatal_level) <= i <= MAX_LEVEL
ErrorsOf(found, fatal_level) ==
    UNION {found[i + 1] : i \in {i \in 0..2 : i >= fatal_level}}

\* main.py 429-433: fatal_level is the count of --ignore-prepatched-compat
\* plus one
PrepatchedInputs ==
    {[divergences |-> ds, boot_image |-> OriginalOf(ds),
      prepatched_image |-> PrepatchedOf(ds), fatal_level |-> n + 1] :
        ds \in DivergenceSets, n \in 0..3}

\* boot.py 302-309
PrepatchedInit ==
    /\ pp_in \in PrepatchedInputs
    /\ issues = <<{}, {}, {}>>
    /\ pp_warned = <<>>
    /\ pp_pc = "compare"
    /\ pp_err = None
    /\ PlannerIdle
    /\ ZipIdle
    /\ PopenIdle
    /\ BootIdle
    /\ MagiskIdle
    /\ MainIdle
    /\ OtaCertIdle
    /\ PartitionsIdle
    /\ StripIdle

\* boot.py 311-349
PpCompare ==
    /\ pp_pc = "compare"
    /\ issues' = IssuesFound(pp_in.boot_image, pp_in.prepatched_image)
    /\ pp_pc' = "kmi"
    /\ UNCHANGED <<pp_in, pp_warned, pp_err>>
    /\ UNCHANGED notPrepatched

\* boot.py 351-357 and 378-394.  For an image without a kernel,
\* _get_kmi_version opens an empty stream: either the format detection
\* rejects it, the fallback hands None to the regular expression and the
\* search raises TypeError, or the stream reads as empty and there is no match.
PpKmi ==
    /\ pp_pc = "kmi"
    /\ LET old == pp_in.boot_image.sections["kernel"]
           new == pp_in.prepatched_image.sections["kernel"]
       IN  IF old = None
           THEN /\ pp_pc' = "split"
                /\ UNCHANGED <<issues, pp_err>>
           ELSE \E detected \in BOOLEAN :
                   IF new = None /\ ~detected
                   THEN /\ pp_pc' = "raised"
                        /\ pp_err' = <<"TypeError">>
                        /\ UNCHANGED issues
                   ELSE /\ pp_pc' = "split"
                        /\ issues' =
                              IF KmiOf(old) # KmiOf(new)
                              THEN [issues EXCEPT ![3] = @ \cup
                                      {<<"Kernel module interface version changed">>}]
                              ELSE issues
                        /\ UNCHANGED pp_err
    /\ UNCHANGED <<pp_in, pp_warned>>
    /\ UNCHANGED notPrepatched

\* boot.py 359-369
PpWarn ==
    /\ pp_pc = "split"
    /\ LET warns == WarningsOf(issues, pp_in.fatal_level)
       IN  pp_warned' = IF warns # {} THEN Append(pp_warned, warns)
                        ELSE pp_warned
    /\ pp_pc' = "check"
    /\ UNCHANGED <<pp_in, issues, pp_err>>
    /\ UNCHANGED notPrepatched

\* boot.py 371-376
PpFinish ==
    /\ pp_pc = "check"
    /\ LET errors == ErrorsOf(issues, pp_in.fatal_level)
       IN  IF errors # {}
           THEN /\ pp_pc' = "raised"
                /\ pp_err' = <<"ValueError", errors>>
           ELSE /\ pp_pc' = "returned"
                /\ UNCHANGED pp_err
    /\ UNCHANGED <<pp_in, issues, pp_warned>>
    /\ UNCHANGED notPrepatched

PrepatchedNext == PpCompare \/ PpKmi \/ PpWarn \/ PpFinish

SpecPrepatched == PrepatchedInit /\ [][PrepatchedNext]_vars

\* C17: for fatal_level 1, 2 or 3, the issues of a level below fatal_level
\* are handed to the warning callback, those of a level at or above it are
\* raised, and the prepatched image is returned exactly when there is no
\* issue of a level at or above fatal_level.
C17_IssuesPartitioned ==
    (pp_pc \in {"returned", "raised"} /\ pp_in.fatal_level \in {1, 2, 3}) =>
        LET below == UNION {issues[l + 1] :
                               l \in {l \in 0..2 : l < pp_in.fatal_level}}
            above == UNION {issues[l + 1] :
                               l \in {l \in 0..2 : l >= pp_in.fatal_level}}
        IN  /\ pp_warned = IF below = {} THEN <<>> ELSE <<below>>
            /\ pp_pc = "returned" <=> above = {}

OnlyIdDiffers ==
    /\ pp_in.divergences = {<<"field", "id", "changed">>}
    /\ pp_in.fatal_level = 1

\* C18 as stated: when only the header field id differs and
\* --ignore-prepatched-compat is not given, the patch returns the prepatched
\* image and the warning callback is not called.
C18_IdChangeSilent ==
    (OnlyIdDiffers /\ pp_pc \in {"returned", "raised"}) =>
        /\ pp_pc = "returned"
        /\ pp_warned = <<>>

\* C18: when only the header field id differs and --ignore-prepatched-compat
\* is not given, the patch returns the prepatched image and the warning
\* callback is called once, with the change of id as its only issue.
C18_IdChangeWarned ==
    (OnlyIdDiffers /\ pp_pc \in {"returned", "raised"}) =>
        /\ pp_pc = "returned"
        /\ pp_warned = << {<<"header field was changed", "id">>} >>

C18_Witness ==
    /\ OnlyIdDiffers
    /\ pp_pc = "returned"
    /\ Len(pp_warned) = 1

\* the issue a divergence is reported as and the level the list gives it
IssueOf(d) ==
    IF d[1] = "field" THEN <<"header field was " \o d[3], d[2]>>
    ELSE IF d[1] = "section" THEN <<"section was " \o d[3], d[2]>>
    ELSE IF d[1] = "ramdisks" THEN <<"Number of ramdisk sections decreased">>
    ELSE <<"Kernel module interface version changed">>

ListedLevel(d) ==
    IF d[1] = "field"
    THEN IF d[3] = "changed"
         THEN IF d[2] \in {"id", "os_version"} THEN 0
              ELSE IF d[2] \in {"cmdline", "extra_cmdline"} THEN 1
              ELSE 2
         ELSE 2
    ELSE IF d[1] = "section"
         THEN IF d[3] = "added" THEN 1 ELSE 2
         ELSE 2

\* C19: every divergence but an increased number of ramdisks is reported as
\* one issue at its level: a changed id or os_version at level 0, a changed
\* cmdline or extra_cmdline and an added section at level 1, any other
\* changed field, an added or removed field, a removed section, a decreased
\* number of ramdisks and a differing KMI version at level 2; an increased
\* number of ramdisks is not reported, and nothing else is.
C19_LevelsAsListed ==
    pp_pc \in {"split", "check", "returned"} =>
        LET ds == pp_in.divergences \ {<<"ramdisks", "increased">>}
            \* a removed kernel is also seen as a differing KMI version
            kmi == IF <<"section", "kernel", "removed">> \in ds
                   THEN {<<"kmi">>} ELSE {}
        IN  \A l \in 0..2 :
               issues[l + 1] =
                  {IssueOf(d) : d \in {d \in ds \cup kmi : ListedLevel(d) = l}}

C19_Witness ==
    /\ pp_pc = "returned"
    /\ <<"ramdisks", "increased">> \in pp_in.divergences
    /\ issues[2] # {}
    /\ issues[3] = {}

\* ------------------------------------------------------------------------
\* get_partitions_by_type on its own (main.py 66-81)
\* ------------------------------------------------------------------------

\* partition names a manifest may list
ManifestNames ==
    {"boot", "init_boot", "recovery", "vendor_boot", "system", "vbmeta",
     "vbmeta_system", "my_vbmeta", "vbmet", "meta"}

\* main.py 67
PartitionsInit ==
    /\ gp_in \in SUBSET ManifestNames
    /\ gp_out = <<>>
    /\ gp_pc = "call"
    /\ PlannerIdle
    /\ ZipIdle
    /\ PopenIdle
    /\ BootIdle
    /\ MagiskIdle
    /\ MainIdle
    /\ OtaCertIdle
    /\ PrepatchedIdle
    /\ StripIdle

\* main.py 66-81
GpCall ==
    /\ gp_pc = "call"
    /\ gp_out' = get_partitions_by_type(gp_in)
    /\ gp_pc' = "done"
    /\ UNCHANGED gp_in
    /\ UNCHANGED notPartitions

PartitionsNext == GpCall

SpecPartitions == PartitionsInit /\ [][PartitionsNext]_vars

\* C20: get_partitions_by_type raises exactly when one of @gki_kernel,
\* @gki_ramdisk and @otacerts has no partition of its priority list in the
\* manifest; otherwise each of them is mapped to the first partition of its
\* list that the manifest has, and the other keys are @vbmeta:<name>, mapped
\* to <name>, for exactly the names of the manifest that contain vbmeta.
C20_RolesResolved ==
    gp_pc = "done" =>
        LET lists == ("@gki_kernel" :> <<"boot">>)
                     @@ ("@gki_ramdisk" :> <<"init_boot", "boot">>)
                     @@ ("@otacerts" :> <<"recovery", "vendor_boot", "boot">>)
            roles == DOMAIN lists
            empty(r) == \A i \in DOMAIN lists[r] : lists[r][i] \notin gp_in
            vb    == {q \in gp_in :
                         \E i \in 1..Len(q) : \E j \in i..Len(q) :
                            SubSeq(q, i, j) = "vbmeta"}
        IN  /\ gp_out.err # None <=> \E r \in roles : empty(r)
            /\ gp_out.err = None =>
                  /\ DOMAIN gp_out.value =
                        roles \cup {"@vbmeta:" \o q : q \in vb}
                  /\ \A r \in roles :
                        \E i \in DOMAIN lists[r] :
                           /\ gp_out.value[r] = lists[r][i]
                           /\ lists[r][i] \in gp_in
                           /\ \A j \in 1..(i - 1) : lists[r][j] \notin gp_in
                  /\ \A q \in vb : gp_out.value["@vbmeta:" \o q] = q

C20_Witness ==
    /\ gp_pc = "done"
    /\ gp_out.err = None
    /\ {"boot", "init_boot", "vendor_boot", "my_vbmeta", "vbmet"} \subseteq gp_in
    /\ "recovery" \notin gp_in
    /\ gp_out.value["@gki_ramdisk"] = "init_boot"
    /\ gp_out.value["@otacerts"] = "vendor_boot"

\* C21: get_required_images returns the @otacerts target and every @vbmeta:
\* target, and when a root patch is asked for also @rootpatch: the target of
\* the boot partition when that names a role, the boot partition itself when
\* the manifest has it, and otherwise the call raises; the images extracted
\* from the payload are the required partitions that are not replaced.
C21_RequiredImages ==
    LET by_type == get_partitions_by_type(args.manifest)
        rooting == args.root # "rootless"
        vb      == {q \in args.manifest : Contains(q, "vbmeta")}
        is_role == args.boot_partition \in DOMAIN by_type.value
        known   == is_role \/ args.boot_partition \in args.manifest
        reached == /\ main_pc \notin {"start", "open", "zip", "prepare"}
                   /\ args.replace \subseteq args.manifest
                   /\ by_type.err = None
    IN  /\ (reached /\ main_pc = "submit") =>
              /\ DOMAIN required_images =
                    {"@otacerts"} \cup {"@vbmeta:" \o q : q \in vb}
                    \cup (IF rooting THEN {"@rootpatch"} ELSE {})
              /\ required_images["@otacerts"] = by_type.value["@otacerts"]
              /\ \A q \in vb : required_images["@vbmeta:" \o q] = q
              /\ rooting =>
                    required_images["@rootpatch"] =
                       IF is_role THEN by_type.value[args.boot_partition]
                       ELSE args.boot_partition
              /\ {n \in DOMAIN image_paths : image_paths[n] = <<"extract", n>>}
                    = {required_images[k] : k \in DOMAIN required_images}
                         \ args.replace
              /\ \A n \in args.replace : image_paths[n] = <<"replace", n>>
        /\ reached =>
              (main_err = "ValueError: Boot partition not found"
                  <=> (rooting /\ ~known))
        /\ (reached /\ rooting /\ ~known) => required_images = <<>>

C21_Witness ==
    /\ main_pc = "submit"
    /\ args.boot_partition = "vendor_boot"
    /\ required_images["@rootpatch"] = "vendor_boot"
    /\ required_images["@otacerts"] = "vendor_boot"
    /\ "@vbmeta:vbmeta_system" \in DOMAIN required_images

\* C25: every partition replaced by the caller is among the images handed to
\* ota.patch_payload.
C25_ReplacementsKept ==
    main_pc = "zip_rest" => args.replace \subseteq DOMAIN payload_images

\* the patches an image is to get: the root patch when it is the target of
\* @rootpatch, then the OTA certificate patch when it is that of @otacerts
PatchesDue(image) ==
    (IF args.root # "rootless" /\ required_images["@rootpatch"] = image
     THEN <<"root_patch">> ELSE <<>>)
    \o (IF required_images["@otacerts"] = image
        THEN <<"OtaCertPatch">> ELSE <<>>)

\* C23: each image to patch is handled by one run of patch_boot, never by
\* more; a run erases the footer first, then applies the patches of the
\* image once each in the order of its list, the root patch before the OTA
\* certificate patch, and adds the hash footer last; a run that raises stops
\* somewhere on that way, so no patch is applied before the footer is erased
\* or after it is added again.
C23_PatchBootOrder ==
    /\ main_pc \in {"close", "raised", "done"} =>
          \A image \in DOMAIN boot_runs : Len(boot_runs[image]) = 1
    /\ main_pc \in {"wait", "pool_exit", "plan", "vbmeta", "zip_rest"} =>
        /\ DOMAIN boot_runs =
              {required_images[k] :
                  k \in DOMAIN required_images \cap
                           {"@otacerts",
                            IF args.root # "rootless" THEN "@rootpatch"
                            ELSE "@otacerts"}}
        /\ \A image \in DOMAIN boot_runs :
              LET whole == <<"erase_footer">> \o PatchesDue(image)
                           \o <<"add_hash_footer">>
              IN  /\ Len(boot_runs[image]) =
                        IF w_pc[image] = "running" THEN 0 ELSE 1
                  /\ main_pc \in {"plan", "vbmeta", "zip_rest"} =>
                        boot_runs[image] = <<whole>>
                  /\ \A r \in DOMAIN boot_runs[image] :
                        LET run == boot_runs[image][r]
                        IN  /\ Len(run) <= Len(whole)
                            /\ run = SubSeq(whole, 1, Len(run))
                            /\ w_pc[image] \in {"patched", "done"} <=>
                                  run = whole

C23_Witness ==
    /\ main_pc = "plan"
    /\ \E image \in DOMAIN boot_runs :
          boot_runs[image] = << <<"erase_footer", "root_patch", "OtaCertPatch",
                                  "add_hash_footer">> >>

\* the names of .backup/.rmlist, and whether it is a list of names in
\* sorted order, each followed by a NUL byte
RmlistListed ==
    {RmlistWritten[k] : k \in {k \in DOMAIN RmlistWritten : k % 2 = 1}}

RmlistWellFormed ==
    /\ Len(RmlistWritten) % 2 = 0
    /\ \A k \in DOMAIN RmlistWritten :
          IF k % 2 = 0 THEN RmlistWritten[k] = "\\0"
          ELSE /\ RmlistWritten[k] # "\\0"
               /\ \A j \in 1..(k - 1) :
                     j % 2 = 1 =>
                        Pos(RamdiskNames, RmlistWritten[j])
                           < Pos(RamdiskNames, RmlistWritten[k])

MaxRecords == 2

\* signatures of the records: zip64 size, the alignment field of Android,
\* and the two with their bytes exchanged
RecordSigs == {1, 55605, 256, 13785}

\* what a record may hold; some data reads like the header of a record
RecordData ==
    {<<>>, <<1>>, <<1, 0>>, <<53, 217, 0, 0>>, <<1, 0, 0, 0>>}

\* struct '<H': two bytes, the low one first
Pack16(n) == <<n % 256, n \div 256>>

Unpack16(bytes, at) == bytes[at] + 256 * bytes[at + 1]

\* the bytes of a record: signature, length of the data, data
RecordBytes(r) == Pack16(r.sig) \o Pack16(Len(r.data)) \o r.data

RECURSIVE Concat(_)
\* the bytes of a list of records
Concat(records) ==
    IF records = <<>> THEN <<>>
    ELSE RecordBytes(Head(records)) \o Concat(Tail(records))

\* extra[a:b] of Python, a <= b
Slice(bytes, a, b) ==
    SubSeq(bytes, a + 1, IF b < Len(bytes) THEN b ELSE Len(bytes))

\* A slip that reads the signatures with their bytes exchanged.
BadSigSwapped(record_sig) == record_sig \in {256, 13785}

\* main.py 250-252: record_sig in (0x0001, 0xd935)
BadSig(record_sig) == record_sig \in {1, 55605}

StripInputs ==
    UNION {[1..n -> [sig : RecordSigs, data : RecordData]] :
              n \in 0..MaxRecords}

\* main.py 239-241
StripInit ==
    /\ sx_in \in StripInputs
    /\ extra = Concat(sx_in)
    /\ offset = 0
    /\ new_extra = <<>>
    /\ sx_out = <<>>
    /\ sx_pc = "loop"
    /\ PlannerIdle
    /\ ZipIdle
    /\ PopenIdle
    /\ BootIdle
    /\ MagiskIdle
    /\ MainIdle
    /\ OtaCertIdle
    /\ PrepatchedIdle
    /\ PartitionsIdle

\* main.py 243-254: one pass of the loop; struct.unpack raises when fewer
\* than four bytes are left
SxRecord ==
    /\ sx_pc = "loop"
    /\ offset < Len(extra)
    /\ IF Len(extra) - offset < 4
       THEN /\ sx_pc' = "raised"
            /\ UNCHANGED <<offset, new_extra>>
       ELSE LET record_sig  == Unpack16(extra, offset + 1)
                record_len  == Unpack16(extra, offset + 3)
                next_offset == offset + 4 + record_len
            IN  /\ new_extra' =
                      IF ~BadSig(record_sig)
                      THEN new_extra \o Slice(extra, offset, next_offset)
                      ELSE new_extra
                /\ offset' = next_offset
                /\ UNCHANGED sx_pc
    /\ UNCHANGED <<sx_in, extra, sx_out>>
    /\ UNCHANGED notStrip

\* main.py 243 and 256: the loop ends and new_extra is returned; the result
\* of the first call is handed to a second call
SxReturn ==
    /\ sx_pc = "loop"
    /\ offset >= Len(extra)
    /\ sx_out' = Append(sx_out, new_extra)
    /\ IF sx_out = <<>>
       THEN /\ extra' = new_extra
            /\ offset' = 0
            /\ new_extra' = <<>>
            /\ UNCHANGED sx_pc
       ELSE /\ sx_pc' = "done"
            /\ UNCHANGED <<extra, offset, new_extra>>
    /\ UNCHANGED sx_in
    /\ UNCHANGED notStrip

StripNext == SxRecord \/ SxReturn

\* the loop is the only thread of the call: it goes on while it can
SpecStrip == StripInit /\ [][StripNext]_vars /\ WF_vars(StripNext)

\* C22: on an extra field made of whole records strip_bad_extra_fields
\* comes to an end and returns the records whose signature is neither
\* 0x0001 nor 0xd935, in their order and byte for byte; a second call on the
\* result returns the same bytes.
C22_StripExact ==
    /\ [](sx_pc = "done" =>
            LET kept == SelectSeq(sx_in,
                                  LAMBDA r : r.sig # 1 /\ r.sig # 55605)
            IN  /\ sx_out[1] = Concat(kept)
                /\ sx_out[2] = sx_out[1])
    /\ [](sx_pc # "raised")
    /\ <>(sx_pc = "done")

C22_Witness ==
    /\ sx_pc = "done"
    /\ Len(sx_in) = 2
    /\ sx_in[1].sig = 55605
    /\ sx_in[1].data = <<1, 0, 0, 0>>
    /\ sx_in[2].sig = 256
    /\ sx_in[2].data = <<53, 217, 0, 0>>
    /\ sx_out[1] # <<>>

=============================================================================
